---- MODULE Spec2Model ----
(***************************************************************************)
(* A model of vinhjaxt/sim900: the serial transport (package serial:       *)
(* byte reader, idle-timer framer, output-listener registry, the command   *)
(* correlator WaitForRegexTimeout) and the SIM900 facade on top of it      *)
(* (Wait4response / wait4response and the unsolicited-event listener that  *)
(* SIM900.Init installs).                                                  *)
(*                                                                         *)
(* Text is a sequence of one-character strings.  Time is counted in ticks  *)
(* of 10ms; only the framer's idle timer is timed, command timeouts may    *)
(* fire at any moment at which the caller is parked in its select.         *)
(***************************************************************************)
EXTENDS Integers, Sequences, FiniteSets, TLC

(***************************************************************************)
(* Bounds of the model.                                                    *)
(***************************************************************************)
\* number of goroutines that call Wait4response, each once
NumCallers == 2
\* number of AddOutputListener calls made by user code
MaxListeners == 1
\* number of goroutines that call WaitSMSText or WaitSMSFunc, each once
NumWaiters == 1

\* user code calling AddSMSListener and DelSMSListener: how many goroutines,
\* and how many ids they ask for in all
NumRegistrants == 2

MaxIds == 3

\* the goroutines that call SerialPort.Close
NumClosers == 2

\* the calls of Port.Read that return an error which are followed
MaxReadErrs == 2

(***************************************************************************)
(* Program constants.                                                      *)
(***************************************************************************)
\* const rxDataTimeout = 20 * time.Millisecond, in ticks of 10ms
rxDataTimeout == 2
\* sp.rxChar = make(chan byte, 512)
RxCharCap == 512
\* sp.rxData = make(chan string, 16)
RxDataCap == 16

(***************************************************************************)
(* Text and the regular expressions of the program.  A pattern is a       *)
(* sequence of alternatives (a|b), an alternative a sequence of elements.  *)
(* Matching is Go's regexp: leftmost match, and among the matches that     *)
(* start there the first alternative, greedy repetition.                   *)
(***************************************************************************)
Digits == {"0", "1", "2", "3", "4", "5", "6", "7", "8", "9"}

Upper == {"A", "B", "C", "D", "E", "F", "G", "H", "I", "J", "K", "L", "M",
          "N", "O", "P", "Q", "R", "S", "T", "U", "V", "W", "X", "Y", "Z"}

Lower == {"a", "b", "c", "d", "e", "f", "g", "h", "i", "j", "k", "l", "m",
          "n", "o", "p", "q", "r", "s", "t", "u", "v", "w", "x", "y", "z"}

\* \w of Go's regexp: [0-9A-Za-z_]
WordChars == Digits \cup Upper \cup Lower \cup {"_"}

\* a literal character
Lit(c) == [k |-> "set", s |-> {c}, rep |-> "one"]

\* (^|\W)
Bos == [k |-> "bos", s |-> {}, rep |-> "one"]

\* ($|\W)
Eos == [k |-> "eos", s |-> {}, rep |-> "one"]

\* (\r?\n)+ ; in newCallPattern a literal + follows, so giving back a
\* repetition never helps and the greedy run is the only candidate
CrLfPlus == [k |-> "crlf", s |-> {}, rep |-> "plus"]

\* \d+
DigitsPlus == [k |-> "set", s |-> Digits, rep |-> "plus"]

\* \s of Go's regexp: [\t\n\f\r ]
Space == {" ", "\t", "\n", "\f", "\r"}

\* [a-zA-Z\d]
Alnum == Digits \cup Upper \cup Lower

\* [\s,\d]+
SpaceCommaDigitsPlus == [k |-> "set", s |-> Space \cup {","} \cup Digits, rep |-> "plus"]

\* \r?
CrOpt == [k |-> "set", s |-> {"\r"}, rep |-> "opt"]

\* [a-zA-Z\d]+
AlnumPlus == [k |-> "set", s |-> Alnum, rep |-> "plus"]

\* [^,\d]
NotCommaDigit == [k |-> "notset", s |-> {","} \cup Digits, rep |-> "one"]

\* [,\d]+
CommaDigitsPlus == [k |-> "set", s |-> {","} \cup Digits, rep |-> "plus"]

\* \s*
SpaceStar == [k |-> "set", s |-> Space, rep |-> "star"]

\* (\r?\n|$)
CrLfOrEnd == [k |-> "crlfOrEnd", s |-> {}, rep |-> "one"]

RECURSIVE RunLen(_, _, _)
\* the number of consecutive characters of str from position i that are in S
RunLen(S, str, i) ==
    IF i <= Len(str) /\ str[i] \in S THEN 1 + RunLen(S, str, i + 1) ELSE 0

RECURSIVE RunCrLf(_, _)
\* the length of the longest run of (\r?\n) units of str from position i
RunCrLf(str, i) ==
    IF i <= Len(str) /\ str[i] = "\n" THEN 1 + RunCrLf(str, i + 1)
    ELSE IF i + 1 <= Len(str) /\ str[i] = "\r" /\ str[i + 1] = "\n"
         THEN 2 + RunCrLf(str, i + 2)
         ELSE 0

RECURSIVE MatchFrom(_, _, _, _)
RECURSIVE TryRep(_, _, _, _, _, _)
\* elements k.. of alternative p matched at position i of str: the position
\* after the preferred match, 0 when there is none
MatchFrom(p, k, str, i) ==
    IF k > Len(p) THEN i
    ELSE LET e == p[k] IN
      CASE e.k = "bos" ->
             LET viaStart == IF i = 1 THEN MatchFrom(p, k + 1, str, i) ELSE 0
             IN IF viaStart # 0 THEN viaStart
                ELSE IF i <= Len(str) /\ str[i] \notin WordChars
                     THEN MatchFrom(p, k + 1, str, i + 1) ELSE 0
        [] e.k = "eos" ->
             LET viaEnd == IF i = Len(str) + 1 THEN MatchFrom(p, k + 1, str, i) ELSE 0
             IN IF viaEnd # 0 THEN viaEnd
                ELSE IF i <= Len(str) /\ str[i] \notin WordChars
                     THEN MatchFrom(p, k + 1, str, i + 1) ELSE 0
        [] e.k = "set" /\ e.rep = "one" ->
             IF i <= Len(str) /\ str[i] \in e.s
             THEN MatchFrom(p, k + 1, str, i + 1) ELSE 0
        [] e.k = "notset" ->
             IF i <= Len(str) /\ str[i] \notin e.s
             THEN MatchFrom(p, k + 1, str, i + 1) ELSE 0
        [] e.k = "crlf" ->
             LET n == RunCrLf(str, i)
             IN IF n > 0 THEN MatchFrom(p, k + 1, str, i + n) ELSE 0
        [] e.k = "set" /\ e.rep = "plus" ->
             TryRep(p, k, str, i, RunLen(e.s, str, i), 1)
        [] e.k = "set" /\ e.rep = "opt" ->
             TryRep(p, k, str, i, IF RunLen(e.s, str, i) > 0 THEN 1 ELSE 0, 0)
        [] e.k = "crlfOrEnd" ->
             LET n == IF i <= Len(str) /\ str[i] = "\n" THEN 1
                      ELSE IF i + 1 <= Len(str) /\ str[i] = "\r" /\ str[i + 1] = "\n"
                           THEN 2 ELSE 0
                 viaNl == IF n > 0 THEN MatchFrom(p, k + 1, str, i + n) ELSE 0
             IN IF viaNl # 0 THEN viaNl
                ELSE IF i = Len(str) + 1 THEN MatchFrom(p, k + 1, str, i) ELSE 0
        [] OTHER ->
             TryRep(p, k, str, i, RunLen(e.s, str, i), 0)

\* greedy repetition: j characters first, then fewer, down to min
TryRep(p, k, str, i, j, min) ==
    IF j < min THEN 0
    ELSE LET r == MatchFrom(p, k + 1, str, i + j)
         IN IF r # 0 THEN r ELSE TryRep(p, k, str, i, j - 1, min)

NoMatch == [found |-> FALSE, text |-> <<>>, start |-> 0]

\* the alternatives of pat that match at position j of str, from alternative a
AltsAt(pat, str, j, a) == {b \in a..Len(pat) : MatchFrom(pat[b], 1, str, j) # 0}

\* the positions from i at which an alternative of pat matches; at i itself
\* only the alternatives from a are tried
HitsFrom(pat, str, i, a) ==
    {j \in i..(Len(str) + 1) : AltsAt(pat, str, j, IF j = i THEN a ELSE 1) # {}}

\* the least element of a non-empty set of numbers
Least(S) == CHOOSE x \in S : \A y \in S : x <= y

\* the search of regexp.FindStringSubmatch from start position i, alternative
\* a: the leftmost position at which an alternative matches, and there the
\* first alternative that does
FindAt(pat, str, i, a) ==
    IF HitsFrom(pat, str, i, a) = {} THEN NoMatch
    ELSE [found |-> TRUE,
          text |-> SubSeq(str, Least(HitsFrom(pat, str, i, a)),
                     MatchFrom(pat[Least(AltsAt(pat, str,
                                  Least(HitsFrom(pat, str, i, a)),
                                  IF Least(HitsFrom(pat, str, i, a)) = i
                                  THEN a ELSE 1))],
                               1, str, Least(HitsFrom(pat, str, i, a))) - 1),
          start |-> Least(HitsFrom(pat, str, i, a))]

\* regExpPattern.FindStringSubmatch(lines): result[0] is text, found is
\* len(result) > 0, start is where the match begins
FindStringSubmatch(pat, str) == FindAt(pat, str, 1, 1)

RECURSIVE FindAllFrom(_, _, _)
\* the successive matches of pat in str from position i on, none overlapping
FindAllFrom(pat, str, i) ==
    LET m == FindAt(pat, str, i, 1)
    IN IF ~m.found THEN <<>>
       ELSE <<m>> \o FindAllFrom(pat, str,
                                 IF m.text = <<>> THEN m.start + 1
                                 ELSE m.start + Len(m.text))

\* pattern.FindAllStringSubmatch(body, -1)
FindAllStringSubmatch(pat, str) == FindAllFrom(pat, str, 1)

\* strings.Contains(s, sub)
Contains(s, sub) ==
    \E i \in 1..(Len(s) + 1) :
        /\ i + Len(sub) - 1 <= Len(s)
        /\ SubSeq(s, i, i + Len(sub) - 1) = sub

ERROR == <<"E", "R", "R", "O", "R">>

\* CMD_OK = `(^|\W)OK($|\W)`
CMD_OK == << <<Bos, Lit("O"), Lit("K"), Eos>> >>

\* CMD_ERROR = `(^|\W)ERROR($|\W)`
CMD_ERROR == << <<Bos, Lit("E"), Lit("R"), Lit("R"), Lit("O"), Lit("R"), Eos>> >>

\* regexp := expected + `|(^|\W)ERROR($|\W)`
WithError(expected) == expected \o CMD_ERROR


\* the patterns compiled in SIM900.Init
\* newMessagePattern = `\+CMT:[\s,\d]+\r?\n([a-zA-Z\d]+)(\r?\n|$)`
newMessagePattern ==
    << <<Lit("+"), Lit("C"), Lit("M"), Lit("T"), Lit(":"), SpaceCommaDigitsPlus,
         CrOpt, Lit("\n"), AlnumPlus, CrLfOrEnd>> >>

\* text without the line end (\r?\n) it may end with
ChopLineEnd(text) ==
    LET n == Len(text)
    IN IF n >= 1 /\ text[n] = "\n"
       THEN IF n >= 2 /\ text[n - 1] = "\r" THEN SubSeq(text, 1, n - 2)
            ELSE SubSeq(text, 1, n - 1)
       ELSE text

RECURSIVE AlnumSuffix(_)
\* the longest suffix of text made of [a-zA-Z\d]
AlnumSuffix(text) ==
    IF text # <<>> /\ text[Len(text)] \in Alnum
    THEN Append(AlnumSuffix(SubSeq(text, 1, Len(text) - 1)), text[Len(text)])
    ELSE <<>>

\* match[1] of a match of newMessagePattern whose match[0] is text: the
\* group ([a-zA-Z\d]+), which a line end precedes and (\r?\n|$) follows
PduOf(text) == AlnumSuffix(ChopLineEnd(text))

HexDigits == Digits \cup {"A", "B", "C", "D", "E", "F"} \cup {"a", "b", "c", "d", "e", "f"}

\* the upper-case form of a hexadecimal digit: the digit's value
HexValue(d) ==
    CASE d = "a" -> "A" [] d = "b" -> "B" [] d = "c" -> "C"
      [] d = "d" -> "D" [] d = "e" -> "E" [] d = "f" -> "F" [] OTHER -> d

\* hex.DecodeString(s): the octets, each as its two digits' values, or an
\* error when the length is odd or a character is no hexadecimal digit
DecodeString(str) ==
    IF Len(str) % 2 = 1 \/ \E i \in 1..Len(str) : str[i] \notin HexDigits
    THEN [err |-> TRUE, octets |-> <<>>]
    ELSE [err |-> FALSE,
          octets |-> [i \in 1..(Len(str) \div 2) |->
                         <<HexValue(str[2 * i - 1]), HexValue(str[2 * i])>>]]

\* msg.ReadFrom(bs) of github.com/xlab/at/sms, which is no part of this
\* repository: a PDU is taken to hold the sender's address in its first
\* octet and the text in the octets after it, and to be in error without both
ReadFrom(octets) ==
    IF Len(octets) < 2 THEN [err |-> TRUE, Address |-> <<>>, Text |-> <<>>]
    ELSE [err |-> FALSE, Address |-> octets[1], Text |-> Tail(octets)]

\* endCallPattern = `\^CEND:\d+`
endCallPattern ==
    << <<Lit("^"), Lit("C"), Lit("E"), Lit("N"), Lit("D"), Lit(":"), DigitsPlus>> >>

\* newCallPattern = `(^|\W)RING(\r?\n)+\+CLIP: "(\d+)"($|\W)`
newCallPattern ==
    << <<Bos, Lit("R"), Lit("I"), Lit("N"), Lit("G"), CrLfPlus,
         Lit("+"), Lit("C"), Lit("L"), Lit("I"), Lit("P"), Lit(":"), Lit(" "),
         Lit("\""), DigitsPlus, Lit("\""), Eos>> >>

(***************************************************************************)
(* The device: what it sends, as chunks of bytes, each a number of ticks   *)
(* after the chunk before it.                                              *)
(***************************************************************************)
Chunk(bytes, gap) == [bytes |-> bytes, gap |-> gap]

FrameOK == <<"O", "K">>


FrameRing ==
    <<"R", "I", "N", "G", "\n", "+", "C", "L", "I", "P", ":", " ", "\"", "1", "\"">>

FrameCEnd == <<"^", "C", "E", "N", "D", ":", "1">>

\* the prompt for the payload of a message
FramePrompt == <<">", " ">>

\* the message has been sent, with its reference 7
FrameCmgs == <<"+", "C", "M", "G", "S", ":", " ", "7", "\n">>

\* the device refuses the message
FrameCmsError == <<"+", "C", "M", "S", " ", "E", "R", "R", "O", "R", ":", " ", "5">>

\* the end of a call as the device reports it, with its line end
FrameCallEnd == <<"^", "C", "E", "N", "D", ":", "1", "\n">>

\* a gap shorter, and a gap longer, than the idle time of the framer
ShortGap == rxDataTimeout - 1

LongGap == rxDataTimeout + 1

(***************************************************************************)
(* State.                                                                  *)
(***************************************************************************)
VARIABLES
    script,        \* what the device sends
    devPos,        \* the next chunk of script
    gapLeft,       \* ticks until the device sends it
    portBuf,       \* bytes sent by the device, not yet returned by Port.Read
    rxBuff,        \* readSerialPort: the bytes of rxBuff[:n] not yet pushed
    rxChar,        \* chan byte
    rxData,        \* chan string
    Opened,        \* SerialPort.Opened
    NeedRx,        \* SerialPort.NeedRx
    RxMu,          \* SerialPort.RxMu: TRUE when locked
    eventMap,      \* SerialPort.eventMap: id -> the listener registered
    eventNextID,   \* SerialPort.eventNextID
    eventMapLock,  \* SerialPort.eventMapLock: [w: writer holds it, r: readers]
    framerpc,      \* processSerialPort: where it is
    screenBuff,    \* processSerialPort: screenBuff
    rxTimer,       \* SerialPort.rxTimer: -1 nothing to receive, 0 fired, n ticks left
    visited,       \* processSerialPort: the keys the range loop has produced
    listeners,     \* the goroutines started by go fn(screenBuff), in order
    isRinging,     \* SIM900.Init: isRinging
    newCalls,      \* the frame of each call of OnNewCall, in order
    PortMu,        \* SIM900.PortMu: [w: writer holds it, r: readers]
    pc,            \* each caller of Wait4response: where it is
    call,          \* each caller: the arguments of its call
    c1,            \* each call: chan []string of capacity 1, <<>> when empty
    timeExpired,   \* each call: timeExpired
    wpc,           \* each call's waiter goroutine: where it is
    lines,         \* each call's waiter goroutine: lines
    result,        \* each caller: what Wait4response returned
    matchedIn,     \* each call: the text of lines in which its waiter found a match
    published,     \* the frames the framer has logged as received (Rx <<)
    aborted        \* the runtime has ended the process (a fatal error)

VARIABLES
    mapSMSEvents,  \* SIM900.mapSMSEvents: id -> the call whose listener it is
    nextSMSEvent,  \* SIM900.nextSMSEvent
    fanouts,       \* the goroutines that range over mapSMSEvents, one a message
    smsCalls,      \* the goroutines started by go fn(msg), in order
    smsErrors,     \* the number of calls of s.OnError
    spc,           \* each caller of WaitSMSText or WaitSMSFunc: where it is
    sarg,          \* each caller: the function called and its arguments
    sub,           \* each caller: the id AddSMSListener gave it
    sresult,       \* each call: result, a channel of capacity 1
    sres           \* each caller: what the call returned

VARIABLES
    wire,          \* what has been written to the port, in order
    callpc,        \* the caller of SIM900.Call: where it is
    callSub,       \* Call: the id AddOutputListener gave it
    callResult,    \* Call: result, a channel of capacity 1
    callRes,       \* what Call returned
    callWroteAt,   \* Call: the chunk the device was to send next when Call wrote
    rpc,           \* each goroutine of user code at the SMS registry: where it is
    rid,           \* the id AddSMSListener gave it last
    initpc,        \* SIM900.Init: 0 before the call, then the step it is at
    initAt,        \* Init: the step at which it returned
    initErr,       \* Init: what it returned
    CSCA,          \* SIM900.CSCA
    sendpc,        \* SIM900.SendSMS: where it is
    sendLen,       \* SendSMS: len(text)
    sendPrompt,    \* SendSMS: response[0] of its first wait
    sendRes,       \* what SendSMS returned
    closepc,       \* each caller of SerialPort.Close: where it is
    rxCharClosed,  \* close(sp.rxChar) has been executed
    rxDataClosed,  \* close(sp.rxData) has been executed
    portClosed,    \* sp.Port.Close() has been called
    readerChecked, \* readSerialPort has seen Opened = 1 and is about to send
    closePanic,    \* the run-time panic that ended the process, if any
    pendingAtClose \* the callers whose command was in flight when Opened became 0

VARIABLES
    streamErr,     \* the stream has failed: Port.Read returns an error from now on
    readErrs,      \* the calls of Port.Read by readSerialPort that returned an error
    setupRuns      \* each caller of WaitSMSText or WaitSMSFunc: the setup
                   \* functions it has called, by their place in inits

devVars == <<script, devPos, gapLeft, portBuf>>

readerVars == <<rxBuff>>

framerVars == <<framerpc, screenBuff, rxTimer, visited, published>>

registryVars == <<eventMap, eventNextID>>

routerVars == <<isRinging, newCalls>>

callerVars == <<pc, call, c1, timeExpired, result, PortMu>>

waiterVars == <<wpc, lines, matchedIn>>

smsVars == <<mapSMSEvents, nextSMSEvent, fanouts, smsCalls, smsErrors, spc,
            sarg, sub, sresult, sres>>

callVars == <<callpc, callSub, callResult, callRes, callWroteAt>>

\* the state of the SIM900 facade beyond Wait4response
regVars == <<rpc, rid>>

initVars == <<initpc, initAt, initErr, CSCA>>

sendVars == <<sendpc, sendLen, sendPrompt, sendRes>>

closeVars == <<closepc, rxCharClosed, rxDataClosed, portClosed, readerChecked,
               closePanic, pendingAtClose>>

streamVars == <<streamErr, readErrs>>

setupVars == <<setupRuns>>

extVars == <<smsVars, wire, callVars, regVars, initVars, sendVars, closeVars,
             streamVars, setupVars>>

\* extVars but for smsVars, and but for callVars
besidesSMS == <<wire, callVars, regVars, initVars, sendVars, closeVars,
     streamVars, setupVars>>

besidesCall == <<smsVars, regVars, initVars, sendVars, closeVars,
     streamVars, setupVars>>

besidesReg == <<wire, callVars, initVars, sendVars, closeVars,
     streamVars, setupVars>>

besidesInit == <<smsVars, callVars, regVars, sendVars, closeVars,
     streamVars, setupVars>>

besidesSend == <<smsVars, callVars, regVars, initVars, closeVars,
     streamVars, setupVars>>

besidesClose == <<smsVars, callVars, regVars, initVars, sendVars,
     streamVars, setupVars>>

\* the facade's state and what has been written
besidesStream == <<smsVars, wire, callVars, regVars, initVars, sendVars,
                   closeVars, setupVars>>

\* the state a setup function of WaitSMSText or WaitSMSFunc leaves alone
besidesSetup == <<wire, callVars, regVars, initVars, sendVars, closeVars,
                  streamVars>>

vars == <<script, devPos, gapLeft, portBuf, rxBuff, rxChar, rxData, Opened,
          NeedRx, RxMu, eventMap, eventNextID, eventMapLock, framerpc,
          screenBuff, rxTimer, visited, listeners, isRinging, newCalls,
          PortMu, pc, call, c1, timeExpired, wpc, lines, result, matchedIn,
          published, aborted, extVars>>

Callers == 1..NumCallers

NoCall == [cmd |-> <<>>, expected |-> <<>>, wroteAt |-> 0]

NoResult == [kind |-> "none", text |-> <<>>]

\* the goroutines that call WaitSMSText or WaitSMSFunc, each once
\* the caller that calls first
FirstCaller == CHOOSE c \in Callers : \A d \in Callers : c <= d

Waiters == 1..NumWaiters

Registrants == 1..NumRegistrants

Closers == 1..NumClosers

NoWait == [fn |-> "none", phoneNumber |-> <<>>, inits |-> <<>>]

\* SIM900.New: no SMS listener, and nobody has called anything yet
InitExt ==
    /\ mapSMSEvents = <<>>
    /\ nextSMSEvent = 0
    /\ fanouts = <<>>
    /\ smsCalls = <<>>
    /\ smsErrors = 0
    /\ spc = [w \in Waiters |-> "idle"]
    /\ sarg = [w \in Waiters |-> NoWait]
    /\ sub = [w \in Waiters |-> 0]
    /\ sresult = [w \in Waiters |-> <<>>]
    /\ sres = [w \in Waiters |-> NoResult]
    /\ wire = <<>>
    /\ callpc = "idle"
    /\ callSub = 0
    /\ callResult = <<>>
    /\ callRes = NoResult
    /\ callWroteAt = 0
    /\ rpc = [r \in Registrants |-> "idle"]
    /\ rid = [r \in Registrants |-> 0]
    /\ initpc = 0
    /\ initAt = 0
    /\ initErr = "none"
    /\ CSCA = <<>>
    /\ sendpc = "idle"
    /\ sendLen = 0
    /\ sendPrompt = <<>>
    /\ sendRes = NoResult
    /\ closepc = [k \in Closers |-> "idle"]
    /\ rxCharClosed = FALSE
    /\ rxDataClosed = FALSE
    /\ portClosed = FALSE
    /\ readerChecked = FALSE
    /\ closePanic = "none"
    /\ pendingAtClose = {}
    /\ setupRuns = [w \in Waiters |-> <<>>]
    /\ streamErr = FALSE
    /\ readErrs = 0

\* serial.New and SIM900.New, then SerialPort.Open: the port is open, the
\* channels are made and empty, readSerialPort and processSerialPort run
InitWith(scripts) ==
    /\ script \in scripts
    /\ devPos = 1
    /\ gapLeft = IF script = <<>> THEN 0 ELSE script[1].gap
    /\ portBuf = <<>>
    /\ rxBuff = <<>>
    /\ rxChar = <<>>
    /\ rxData = <<>>
    /\ Opened = 1
    /\ NeedRx = 0
    /\ RxMu = FALSE
    /\ eventMap = <<>>
    /\ eventNextID = 0
    /\ eventMapLock = [w |-> FALSE, r |-> 0]
    /\ framerpc = "select"
    /\ screenBuff = <<>>
    /\ rxTimer = -1
    /\ visited = {}
    /\ listeners = <<>>
    /\ isRinging = FALSE
    /\ newCalls = <<>>
    /\ PortMu = [w |-> FALSE, r |-> 0]
    /\ pc = [c \in Callers |-> "idle"]
    /\ call = [c \in Callers |-> NoCall]
    /\ c1 = [c \in Callers |-> <<>>]
    /\ timeExpired = [c \in Callers |-> FALSE]
    /\ wpc = [c \in Callers |-> "none"]
    /\ lines = [c \in Callers |-> <<>>]
    /\ result = [c \in Callers |-> NoResult]
    /\ matchedIn = [c \in Callers |-> <<>>]
    /\ published = <<>>
    /\ aborted = FALSE
    /\ InitExt

(***************************************************************************)
(* The device and the clock.                                               *)
(***************************************************************************)
\* the device sends its next chunk
DeviceEmit ==
    /\ ~aborted
    /\ devPos <= Len(script)
    /\ gapLeft = 0
    /\ portBuf' = portBuf \o script[devPos].bytes
    /\ devPos' = devPos + 1
    /\ gapLeft' = IF devPos + 1 <= Len(script) THEN script[devPos + 1].gap ELSE 0
    /\ UNCHANGED <<script, readerVars, rxChar, rxData, Opened, NeedRx, RxMu,
                   registryVars, eventMapLock, framerVars, listeners,
                   routerVars, callerVars, waiterVars, aborted,
                   extVars>>

\* the reader and the framer handle a byte in less than a tick: no time
\* passes while a byte is on its way to screenBuff or a fired timer is unserved
Busy ==
    \/ devPos <= Len(script) /\ gapLeft = 0
    \/ portBuf # <<>>
    \/ rxBuff # <<>>
    \/ framerpc = "select" /\ (rxChar # <<>> \/ rxTimer = 0)

\* one tick of 10ms passes
Tick ==
    /\ ~aborted
    /\ ~Busy
    /\ gapLeft > 0 \/ rxTimer > 0
    /\ gapLeft' = IF gapLeft > 0 THEN gapLeft - 1 ELSE gapLeft
    /\ rxTimer' = IF rxTimer > 0 THEN rxTimer - 1 ELSE rxTimer
    /\ UNCHANGED <<script, devPos, portBuf, readerVars, rxChar, rxData, Opened,
                   NeedRx, RxMu, registryVars, eventMapLock, framerpc,
                   screenBuff, visited, published, listeners, routerVars,
                   callerVars, waiterVars, aborted,
                   extVars>>

(***************************************************************************)
(* readSerialPort.                                                         *)
(***************************************************************************)
\* n, _ := sp.Port.Read(rxBuff), while Opened is 1
ReaderRead ==
    /\ ~aborted
    /\ rxBuff = <<>>
    /\ Opened = 1
    /\ ~streamErr
    /\ portBuf # <<>>
    /\ rxBuff' = portBuf
    /\ portBuf' = <<>>
    /\ UNCHANGED <<script, devPos, gapLeft, rxChar, rxData, Opened, NeedRx,
                   RxMu, registryVars, eventMapLock, framerVars, listeners,
                   routerVars, callerVars, waiterVars, aborted,
                   extVars>>

\* one turn of for _, b := range rxBuff[:n]
ReaderPush ==
    /\ ~aborted
    /\ rxBuff # <<>>
    /\ IF Opened = 1
       THEN /\ Len(rxChar) < RxCharCap
            /\ rxChar' = Append(rxChar, Head(rxBuff))
            /\ rxBuff' = Tail(rxBuff)
       ELSE /\ rxBuff' = <<>>
            /\ UNCHANGED rxChar
    /\ UNCHANGED <<devVars, rxData, Opened, NeedRx, RxMu, registryVars,
                   eventMapLock, framerVars, listeners, routerVars,
                   callerVars, waiterVars, aborted,
                   extVars>>

(***************************************************************************)
(* The listener registry.                                                  *)
(***************************************************************************)
\* sync.RWMutex.Lock can be taken
CanLock(mu) == ~mu.w /\ mu.r = 0

\* sync.RWMutex.RLock can be taken
CanRLock(mu) == ~mu.w

\* AddOutputListener(fn); the uint32 counter is far from wrapping
\* a registry that gives out the least id not in use
AddListenerReusing(fn) ==
    /\ ~aborted
    /\ CanLock(eventMapLock)
    /\ LET id == CHOOSE i \in 1..(eventNextID + 1) :
                    /\ i \notin DOMAIN eventMap
                    /\ \A j \in 1..(i - 1) : j \in DOMAIN eventMap
       IN /\ eventNextID' = IF id > eventNextID THEN id ELSE eventNextID
          /\ eventMap' = [i \in DOMAIN eventMap \cup {id} |->
                            IF i = id THEN fn ELSE eventMap[i]]
    /\ UNCHANGED <<devVars, readerVars, rxChar, rxData, Opened, NeedRx, RxMu,
                   eventMapLock, framerVars, listeners, routerVars,
                   callerVars, waiterVars, aborted,
                   extVars>>

AddListener(fn) ==
    /\ ~aborted
    /\ CanLock(eventMapLock)
    /\ eventNextID' = eventNextID + 1
    /\ eventMap' = [i \in DOMAIN eventMap \cup {eventNextID'} |->
                      IF i = eventNextID' THEN fn ELSE eventMap[i]]
    /\ UNCHANGED <<devVars, readerVars, rxChar, rxData, Opened, NeedRx, RxMu,
                   eventMapLock, framerVars, listeners, routerVars,
                   callerVars, waiterVars, aborted,
                   extVars>>

\* the number of listeners registered so far by user code
UserAdds == Cardinality({i \in 1..eventNextID :
                            IF i \in DOMAIN eventMap THEN eventMap[i] = "user"
                            ELSE i # callSub})

\* user code calls AddOutputListener
AddOutputListener ==
    /\ UserAdds < MaxListeners
    /\ AddListener("user")

\* DelOutputListener(id), by user code, of an id AddOutputListener gave it
DelOutputListener(id) ==
    /\ ~aborted
    /\ id \in DOMAIN eventMap => eventMap[id] = "user"
    /\ CanLock(eventMapLock)
    /\ eventMap' = [i \in DOMAIN eventMap \ {id} |-> eventMap[i]]
    /\ UNCHANGED <<devVars, readerVars, rxChar, rxData, Opened, NeedRx, RxMu,
                   eventNextID, eventMapLock, framerVars, listeners,
                   routerVars, callerVars, waiterVars, aborted,
                   extVars>>

(***************************************************************************)
(* processSerialPort.                                                      *)
(***************************************************************************)
\* case lastRxByte = <-sp.rxChar
FramerRxChar ==
    /\ ~aborted
    /\ framerpc = "select"
    /\ Opened = 1
    /\ rxChar # <<>>
    /\ screenBuff' = Append(screenBuff, Head(rxChar))
    /\ rxChar' = Tail(rxChar)
    /\ rxTimer' = rxDataTimeout
    /\ UNCHANGED <<devVars, readerVars, rxData, Opened, NeedRx, RxMu,
                   registryVars, eventMapLock, framerpc, visited, published,
                   listeners, routerVars, callerVars, waiterVars, aborted,
                   extVars>>

\* case <-sp.rxTimer, up to the lock of the registry
FramerTimer ==
    /\ ~aborted
    /\ framerpc = "select"
    /\ Opened = 1
    /\ rxTimer = 0
    /\ rxTimer' = -1
    /\ framerpc' = IF screenBuff = <<>> THEN "select" ELSE "rlock"
    /\ UNCHANGED <<devVars, readerVars, rxChar, rxData, Opened, NeedRx, RxMu,
                   registryVars, eventMapLock, screenBuff, visited, published,
                   listeners, routerVars, callerVars, waiterVars, aborted,
                   extVars>>

\* sp.eventMapLock.RLock(), and the range loop starts
FramerRLock ==
    /\ ~aborted
    /\ framerpc = "rlock"
    /\ CanRLock(eventMapLock)
    /\ eventMapLock' = [eventMapLock EXCEPT !.r = @ + 1]
    /\ visited' = {}
    /\ framerpc' = "range"
    /\ UNCHANGED <<devVars, readerVars, rxChar, rxData, Opened, NeedRx, RxMu,
                   registryVars, screenBuff, rxTimer, published, listeners,
                   routerVars, callerVars, waiterVars, aborted,
                   extVars>>

\* the keys of eventMap the range loop has yet to produce
Unvisited == DOMAIN eventMap \ visited

\* sync.RWMutex.RUnlock of a lock that is read-locked; of one that is not it
\* is a run-time error
CanRUnlock(mu) == mu.r > 0

\* the goroutine of go fn(screenBuff)
Goroutine(id) ==
    [id |-> id, fn |-> eventMap[id], frame |-> screenBuff,
     pc |-> CASE eventMap[id] = "router" -> "sms"
              [] eventMap[id] = "call" -> "start"
              [] OTHER -> "done"]

\* one turn of the range loop, to its Lock: RUnlock, go fn(screenBuff)
FramerDispatch(id) ==
    /\ ~aborted
    /\ framerpc = "range"
    /\ id \in Unvisited
    /\ CanRUnlock(eventMapLock)
    /\ eventMapLock' = [eventMapLock EXCEPT !.r = @ - 1]
    /\ visited' = visited \cup {id}
    /\ listeners' = Append(listeners, Goroutine(id))
    /\ framerpc' = "lock"
    /\ UNCHANGED <<devVars, readerVars, rxChar, rxData, Opened, NeedRx, RxMu,
                   registryVars, screenBuff, rxTimer, published, routerVars,
                   callerVars, waiterVars, aborted,
                   extVars>>

\* sp.eventMapLock.Lock() at the end of a turn of the range loop
FramerLock ==
    /\ ~aborted
    /\ framerpc = "lock"
    /\ CanLock(eventMapLock)
    /\ eventMapLock' = [eventMapLock EXCEPT !.w = TRUE]
    /\ framerpc' = "range"
    /\ UNCHANGED <<devVars, readerVars, rxChar, rxData, Opened, NeedRx, RxMu,
                   registryVars, screenBuff, rxTimer, visited, published,
                   listeners, routerVars, callerVars, waiterVars, aborted,
                   extVars>>

\* sp.eventMapLock.RUnlock() after the range loop
FramerRUnlock ==
    /\ ~aborted
    /\ framerpc = "range"
    /\ Unvisited = {}
    /\ CanRUnlock(eventMapLock)
    /\ eventMapLock' = [eventMapLock EXCEPT !.r = @ - 1]
    /\ framerpc' = "needrx"
    /\ UNCHANGED <<devVars, readerVars, rxChar, rxData, Opened, NeedRx, RxMu,
                   registryVars, screenBuff, rxTimer, visited, published,
                   listeners, routerVars, callerVars, waiterVars, aborted,
                   extVars>>

\* RUnlock, in the range loop or after it, of the lock the framer holds for
\* writing: "sync: RUnlock of unlocked RWMutex".  The runtime ends the
\* process (a fatal error since Go 1.8); before that it is a panic, which the
\* deferred recover() swallows, and processSerialPort returns with the lock held
FramerRUnlockMisuse ==
    /\ ~aborted
    /\ framerpc = "range"
    /\ ~CanRUnlock(eventMapLock)
    /\ \/ aborted' = TRUE /\ framerpc' = "fatal"
       \/ aborted' = aborted /\ framerpc' = "recovered"
    /\ UNCHANGED <<devVars, readerVars, rxChar, rxData, Opened, NeedRx, RxMu,
                   registryVars, eventMapLock, screenBuff, rxTimer, visited,
                   published, listeners, routerVars, callerVars, waiterVars,
                   extVars>>

\* a framer that logs the frame and does not clean its buffer
FramerNeedRxKeeping ==
    /\ ~aborted
    /\ framerpc = "needrx"
    /\ published' = Append(published, screenBuff)
    /\ framerpc' = IF NeedRx = 1 THEN "send" ELSE "select"
    /\ UNCHANGED <<devVars, readerVars, rxChar, rxData, Opened, NeedRx, RxMu,
                   registryVars, eventMapLock, screenBuff, rxTimer, visited,
                   listeners, routerVars, callerVars, waiterVars, aborted,
                   extVars>>

\* sp.log("Rx << %q", screenBuff); if atomic.LoadInt32(&sp.NeedRx) == 1
FramerNeedRx ==
    /\ ~aborted
    /\ framerpc = "needrx"
    /\ published' = Append(published, screenBuff)
    /\ IF NeedRx = 1
       THEN framerpc' = "send" /\ UNCHANGED screenBuff
       ELSE framerpc' = "select" /\ screenBuff' = <<>>
    /\ UNCHANGED <<devVars, readerVars, rxChar, rxData, Opened, NeedRx, RxMu,
                   registryVars, eventMapLock, rxTimer, visited, listeners,
                   routerVars, callerVars, waiterVars, aborted,
                   extVars>>

\* sp.rxData <- string(screenBuff); screenBuff = nil
FramerSend ==
    /\ ~aborted
    /\ framerpc = "send"
    /\ ~rxDataClosed
    /\ Len(rxData) < RxDataCap
    /\ rxData' = Append(rxData, screenBuff)
    /\ screenBuff' = <<>>
    /\ framerpc' = "select"
    /\ UNCHANGED <<devVars, readerVars, rxChar, Opened, NeedRx, RxMu,
                   registryVars, eventMapLock, rxTimer, visited, published,
                   listeners, routerVars, callerVars, waiterVars, aborted,
                   extVars>>

(***************************************************************************)
(* SIM900.Init: the output listener, one goroutine for each frame.         *)
(***************************************************************************)
\* s.Port.AddOutputListener(func(b []byte) {...}) in SIM900.Init
InitAddListener ==
    /\ \A i \in DOMAIN eventMap : eventMap[i] # "router"
    /\ AddListener("router")

\* isRinging.Load().(bool) && endCallPattern.MatchString(body)
EndCallSeen(g) ==
    isRinging /\ FindStringSubmatch(endCallPattern, listeners[g].frame).found

\* isRinging.Load().(bool) == false, and newCallPattern matches body
NewCallSeen(g) ==
    ~isRinging /\ FindStringSubmatch(newCallPattern, listeners[g].frame).found

\* what the listener makes of each match of newMessagePattern in body:
\* hex.DecodeString(strings.Trim(match[1], "\r\n")), then msg.ReadFrom(bs)
Decoded(body) ==
    LET matches == FindAllStringSubmatch(newMessagePattern, body)
    IN [m \in DOMAIN matches |->
          LET bs == DecodeString(PduOf(matches[m].text))
          IN IF bs.err THEN ReadFrom(<<>>) ELSE ReadFrom(bs.octets)]

\* go func() { s.SMSEventLock.RLock(); ... }() for message msg, not yet run;
\* waiting is for the record: the calls blocked in their select when it runs
FanOut(msg) ==
    [msg |-> [Address |-> msg.Address, Text |-> msg.Text], pc |-> "start",
     waiting |-> {}]

RECURSIVE UntilError(_)
\* the results ds up to and with the first one in error
UntilError(ds) ==
    IF ds = <<>> THEN <<>>
    ELSE IF Head(ds).err THEN <<Head(ds)>>
    ELSE <<Head(ds)>> \o UntilError(Tail(ds))

\* a listener that returns at the first message it cannot decode
ListenerStepAborting(g) ==
    /\ ~aborted
    /\ g \in DOMAIN listeners
    /\ listeners[g].fn = "router"
    /\ listeners[g].pc # "done"
    /\ CASE listeners[g].pc = "sms" ->
              LET all == Decoded(listeners[g].frame)
                  ds == UntilError(all)
                  good == SelectSeq(ds, LAMBDA d : ~d.err)
              IN /\ fanouts' = fanouts \o [i \in DOMAIN good |-> FanOut(good[i])]
                 /\ smsErrors' = smsErrors + (Len(ds) - Len(good))
                 /\ listeners' = [listeners EXCEPT ![g].pc =
                                    IF Len(ds) = Len(good) THEN "endLoad" ELSE "done"]
                 /\ UNCHANGED routerVars
         [] listeners[g].pc = "endLoad" ->
              /\ listeners' = [listeners EXCEPT ![g].pc =
                                 IF EndCallSeen(g) THEN "endStore" ELSE "ringLoad"]
              /\ UNCHANGED <<routerVars, fanouts, smsErrors>>
         [] listeners[g].pc = "endStore" ->
              /\ isRinging' = FALSE
              /\ listeners' = [listeners EXCEPT ![g].pc = "ringLoad"]
              /\ UNCHANGED <<newCalls, fanouts, smsErrors>>
         [] listeners[g].pc = "ringLoad" ->
              /\ listeners' = [listeners EXCEPT ![g].pc =
                                 IF NewCallSeen(g) THEN "ringStore" ELSE "done"]
              /\ UNCHANGED <<routerVars, fanouts, smsErrors>>
         [] OTHER ->
              /\ isRinging' = TRUE
              /\ newCalls' = Append(newCalls, listeners[g].frame)
              /\ listeners' = [listeners EXCEPT ![g].pc = "done"]
              /\ UNCHANGED <<fanouts, smsErrors>>
    /\ UNCHANGED <<devVars, readerVars, rxChar, rxData, Opened, NeedRx, RxMu,
                   registryVars, eventMapLock, framerVars, callerVars,
                   waiterVars, aborted, besidesSMS,
                   mapSMSEvents, nextSMSEvent, smsCalls, spc, sarg, sub,
                   sresult, sres>>

\* one step of the listener of SIM900.Init on its frame: the loop over the
\* messages of the frame, then from one access of isRinging to the next;
\* OnError and OnNewCall are set
ListenerStep(g) ==
    /\ ~aborted
    /\ g \in DOMAIN listeners
    /\ listeners[g].fn = "router"
    /\ listeners[g].pc # "done"
    /\ CASE listeners[g].pc = "sms" ->
              LET ds == Decoded(listeners[g].frame)
                  good == SelectSeq(ds, LAMBDA d : ~d.err)
              IN /\ fanouts' = fanouts \o [i \in DOMAIN good |-> FanOut(good[i])]
                 /\ smsErrors' = smsErrors + (Len(ds) - Len(good))
                 /\ listeners' = [listeners EXCEPT ![g].pc = "endLoad"]
                 /\ UNCHANGED routerVars
         [] listeners[g].pc = "endLoad" ->
              /\ listeners' = [listeners EXCEPT ![g].pc =
                                 IF EndCallSeen(g) THEN "endStore" ELSE "ringLoad"]
              /\ UNCHANGED <<routerVars, fanouts, smsErrors>>
         [] listeners[g].pc = "endStore" ->
              /\ isRinging' = FALSE
              /\ listeners' = [listeners EXCEPT ![g].pc = "ringLoad"]
              /\ UNCHANGED <<newCalls, fanouts, smsErrors>>
         [] listeners[g].pc = "ringLoad" ->
              /\ listeners' = [listeners EXCEPT ![g].pc =
                                 IF NewCallSeen(g) THEN "ringStore" ELSE "done"]
              /\ UNCHANGED <<routerVars, fanouts, smsErrors>>
         [] OTHER ->
              /\ isRinging' = TRUE
              /\ newCalls' = Append(newCalls, listeners[g].frame)
              /\ listeners' = [listeners EXCEPT ![g].pc = "done"]
              /\ UNCHANGED <<fanouts, smsErrors>>
    /\ UNCHANGED <<devVars, readerVars, rxChar, rxData, Opened, NeedRx, RxMu,
                   registryVars, eventMapLock, framerVars, callerVars,
                   waiterVars, aborted, besidesSMS,
                   mapSMSEvents, nextSMSEvent, smsCalls, spc, sarg, sub,
                   sresult, sres>>

(***************************************************************************)
(* SIM900.Wait4response, SIM900.wait4response and                          *)
(* SerialPort.WaitForRegexTimeout.                                         *)
(***************************************************************************)
\* the commands and the expected patterns the callers pass
Cmds == {<<"A", "T">>}

\* `ERR`: a pattern that matches inside the text ERROR
ExpectERR == << <<Lit("E"), Lit("R"), Lit("R")>> >>

Expecteds == {CMD_OK, ExpectERR}

\* a lock that never makes a caller wait
NoMutex(mu) == mu \in BOOLEAN

\* sync.Mutex.Lock can be taken
MutexFree(mu) == mu = FALSE

\* wait4response, after WaitForRegexTimeout has returned response without an
\* error: strings.Contains(response[0], "ERROR")
Checked(response) ==
    IF Contains(response, ERROR)
    THEN [kind |-> "DeviceError", text |-> response]
    ELSE [kind |-> "ok", text |-> response]

\* Wait4response returns res: the deferred s.PortMu.RUnlock() runs
Return(c, res) ==
    /\ result' = [result EXCEPT ![c] = res]
    /\ PortMu' = [PortMu EXCEPT !.r = @ - 1]
    /\ pc' = [pc EXCEPT ![c] = "done"]

\* Wait4response(cmd, expected, timeout) is called: s.PortMu.RLock(), and in
\* WaitForRegexTimeout if atomic.LoadInt32(&sp.Opened) == 1, to RxMu.Lock.
\* The callers are alike: they are numbered in the order of their calls
W4rCall(c, cmd, expected) ==
    /\ ~aborted
    /\ pc[c] = "idle"
    /\ \A d \in Callers : d < c => pc[d] # "idle"
    /\ CanRLock(PortMu)
    /\ call' = [call EXCEPT ![c] = [cmd |-> cmd, expected |-> expected, wroteAt |-> 0]]
    /\ IF Opened = 1
       THEN /\ PortMu' = [PortMu EXCEPT !.r = @ + 1]
            /\ pc' = [pc EXCEPT ![c] = "lock"]
            /\ UNCHANGED result
       ELSE /\ result' = [result EXCEPT ![c] = [kind |-> "NotOpened", text |-> <<>>]]
            /\ pc' = [pc EXCEPT ![c] = "done"]
            /\ UNCHANGED PortMu
    /\ UNCHANGED <<devVars, readerVars, rxChar, rxData, Opened, NeedRx, RxMu,
                   registryVars, eventMapLock, framerVars, listeners,
                   routerVars, c1, timeExpired, waiterVars, aborted,
                   extVars>>

\* sp.RxMu.Lock(); atomic.StoreInt32(&sp.NeedRx, 1); go func() {...}()
WfrLock(c) ==
    /\ ~aborted
    /\ pc[c] = "lock"
    /\ MutexFree(RxMu)
    /\ RxMu' = TRUE
    /\ NeedRx' = 1
    /\ wpc' = [wpc EXCEPT ![c] = "loop"]
    /\ lines' = [lines EXCEPT ![c] = <<>>]
    /\ pc' = [pc EXCEPT ![c] = "println"]
    /\ UNCHANGED <<devVars, readerVars, rxChar, rxData, Opened, registryVars,
                   eventMapLock, framerVars, listeners, routerVars, call, c1,
                   timeExpired, result, PortMu, matchedIn, aborted,
                   extVars>>

\* if cmd != "" { if err := sp.Println(cmd); err != nil { return nil, err } }
\* and, the call having no setup function, on to the select; written is
\* whether sp.Port.Write succeeds
WfrPrintln(c, written) ==
    /\ ~aborted
    /\ pc[c] = "println"
    /\ IF call[c].cmd = <<>>
       THEN /\ written
            /\ pc' = [pc EXCEPT ![c] = "select"]
            /\ UNCHANGED <<call, result, PortMu>>
       ELSE IF Opened # 1
       THEN /\ written
            /\ Return(c, [kind |-> "NotOpened", text |-> <<>>])
            /\ UNCHANGED call
       ELSE IF written
       THEN /\ pc' = [pc EXCEPT ![c] = "select"]
            /\ call' = [call EXCEPT ![c].wroteAt = devPos]
            /\ UNCHANGED <<result, PortMu>>
       ELSE /\ Return(c, [kind |-> "WriteError", text |-> <<>>])
            /\ UNCHANGED call
    /\ UNCHANGED <<devVars, readerVars, rxChar, rxData, Opened, NeedRx, RxMu,
                   registryVars, eventMapLock, framerVars, listeners,
                   routerVars, c1, timeExpired, waiterVars, aborted,
                   extVars>>

\* case data := <-c1: return data, nil; then wait4response checks it
WfrMatched(c) ==
    /\ ~aborted
    /\ pc[c] = "select"
    /\ c1[c] # <<>>
    /\ c1' = [c1 EXCEPT ![c] = <<>>]
    /\ Return(c, Checked(Head(c1[c])))
    /\ UNCHANGED <<devVars, readerVars, rxChar, rxData, Opened, NeedRx, RxMu,
                   registryVars, eventMapLock, framerVars, listeners,
                   routerVars, call, timeExpired, waiterVars, aborted,
                   extVars>>

\* case <-time.After(timeout): timeExpired = true; return nil, Timeout
WfrTimeout(c) ==
    /\ ~aborted
    /\ pc[c] = "select"
    /\ c1[c] = <<>>
    /\ timeExpired' = [timeExpired EXCEPT ![c] = TRUE]
    /\ Return(c, [kind |-> "Timeout", text |-> <<>>])
    /\ UNCHANGED <<devVars, readerVars, rxChar, rxData, Opened, NeedRx, RxMu,
                   registryVars, eventMapLock, framerVars, listeners,
                   routerVars, call, c1, waiterVars, aborted,
                   extVars>>

(***************************************************************************)
(* The goroutine WaitForRegexTimeout starts.                               *)
(***************************************************************************)
\* for !timeExpired: the read races with the write in the select of the
\* caller, so it may still see false after the caller has timed out
WaiterLoop(c, seen) ==
    /\ ~aborted
    /\ wpc[c] = "loop"
    /\ seen \in {timeExpired[c], FALSE}
    /\ wpc' = [wpc EXCEPT ![c] = IF seen THEN "exit" ELSE "recv"]
    /\ UNCHANGED <<devVars, readerVars, rxChar, rxData, Opened, NeedRx, RxMu,
                   registryVars, eventMapLock, framerVars, listeners,
                   routerVars, callerVars, lines, matchedIn, aborted,
                   extVars>>

\* a goroutine that looks for its pattern in each frame by itself
WaiterRecvPerFrame(c) ==
    /\ ~aborted
    /\ wpc[c] = "recv"
    /\ rxData # <<>>
    /\ rxData' = Tail(rxData)
    /\ LET text == Head(rxData)
           m == FindStringSubmatch(WithError(call[c].expected), text)
       IN IF m.found
          THEN /\ c1' = [c1 EXCEPT ![c] = Append(@, m.text)]
               /\ matchedIn' = [matchedIn EXCEPT ![c] = text]
               /\ wpc' = [wpc EXCEPT ![c] = "exit"]
          ELSE /\ wpc' = [wpc EXCEPT ![c] = "loop"]
               /\ UNCHANGED <<c1, matchedIn>>
    /\ UNCHANGED <<devVars, readerVars, rxChar, Opened, NeedRx, RxMu,
                   registryVars, eventMapLock, framerVars, listeners,
                   routerVars, pc, call, timeExpired, result, PortMu, aborted,
                   lines, extVars>>

\* lines += <-sp.rxData; result = regExpPattern.FindStringSubmatch(lines);
\* if len(result) > 0 { c1 <- result; break }
WaiterRecv(c) ==
    /\ ~aborted
    /\ wpc[c] = "recv"
    /\ rxData # <<>>
    /\ rxData' = Tail(rxData)
    /\ LET text == lines[c] \o Head(rxData)
           m == FindStringSubmatch(WithError(call[c].expected), text)
       IN IF m.found
          THEN /\ c1' = [c1 EXCEPT ![c] = Append(@, m.text)]
               /\ matchedIn' = [matchedIn EXCEPT ![c] = text]
               /\ lines' = [lines EXCEPT ![c] = <<>>]
               /\ wpc' = [wpc EXCEPT ![c] = "exit"]
          ELSE /\ lines' = [lines EXCEPT ![c] = text]
               /\ wpc' = [wpc EXCEPT ![c] = "loop"]
               /\ UNCHANGED <<c1, matchedIn>>
    /\ UNCHANGED <<devVars, readerVars, rxChar, Opened, NeedRx, RxMu,
                   registryVars, eventMapLock, framerVars, listeners,
                   routerVars, pc, call, timeExpired, result, PortMu, aborted,
                   extVars>>

\* atomic.StoreInt32(&sp.NeedRx, 0); sp.RxMu.Unlock()
WaiterExit(c) ==
    /\ ~aborted
    /\ wpc[c] = "exit"
    /\ NeedRx' = 0
    /\ RxMu' = FALSE
    /\ wpc' = [wpc EXCEPT ![c] = "done"]
    /\ UNCHANGED <<devVars, readerVars, rxChar, rxData, Opened, registryVars,
                   eventMapLock, framerVars, listeners, routerVars,
                   callerVars, lines, matchedIn, aborted,
                   extVars>>

(***************************************************************************)
(* WaitSMSText, WaitSMSFunc, and the goroutines the listener of            *)
(* SIM900.Init starts for a message.  SMSEventLock is held within a step.  *)
(***************************************************************************)
\* the state of the serial port and of Wait4response
portVars == <<devVars, readerVars, rxChar, rxData, Opened, NeedRx, RxMu,
             registryVars, eventMapLock, framerVars, listeners, routerVars,
             callerVars, waiterVars, aborted>>

\* the addresses messages come from
AddrA == <<"0", "A">>

AddrB == <<"0", "B">>

\* the functions called, the filters and the setup functions passed: inits
\* is what each setup function returns when called, nil or an error
WaitFns == {"WaitSMSText", "WaitSMSFunc"}

PhoneNumbers == {AddrA}

InitsGiven == {<<>>, <<"nil">>, <<"err">>, <<"nil", "err">>, <<"err", "nil">>}

\* a listener that takes every message
AcceptsAny(w, msg) == msg.Address = msg.Address

\* the listener of call w takes msg: string(msg.Address) == phoneNumber in
\* WaitSMSText; in WaitSMSFunc match(msg), match a test of the address
Accepts(w, msg) == msg.Address = sarg[w].phoneNumber

\* map m without key k
Without(m, k) == [i \in DOMAIN m \ {k} |-> m[i]]

RECURSIVE KeysOf(_)
\* the keys in set S, as a range loop may produce them
KeysOf(S) ==
    IF S = {} THEN <<>>
    ELSE LET k == CHOOSE x \in S : \A y \in S : x <= y
         IN <<k>> \o KeysOf(S \ {k})

\* WaitSMSText or WaitSMSFunc is called: result := make(chan, 1), and in
\* AddSMSListener id := atomic.AddUint64(&s.nextSMSEvent, 1)
WaitSMSCall(w, fn, phoneNumber, inits) ==
    /\ ~aborted
    /\ spc[w] = "idle"
    /\ \A d \in Waiters : d < w => spc[d] # "idle"
    /\ sarg' = [sarg EXCEPT ![w] =
                  [fn |-> fn, phoneNumber |-> phoneNumber, inits |-> inits]]
    /\ nextSMSEvent' = nextSMSEvent + 1
    /\ sub' = [sub EXCEPT ![w] = nextSMSEvent + 1]
    /\ spc' = [spc EXCEPT ![w] = "store"]
    /\ UNCHANGED <<portVars, besidesSMS, mapSMSEvents, fanouts, smsCalls, smsErrors,
                   sresult, sres>>

\* AddSMSListener: s.mapSMSEvents[id] = fn under SMSEventLock, return id.
\* WaitSMSText defers DelSMSListener(id); WaitSMSFunc calls it at once
WaitSMSStore(w) ==
    /\ ~aborted
    /\ spc[w] = "store"
    /\ mapSMSEvents' = (sub[w] :> w) @@ mapSMSEvents
    /\ spc' = [spc EXCEPT ![w] =
                 IF sarg[w].fn = "WaitSMSFunc" THEN "delNow" ELSE "inits"]
    /\ UNCHANGED <<portVars, besidesSMS, nextSMSEvent, fanouts, smsCalls, smsErrors, sarg,
                   sub, sresult, sres>>

\* WaitSMSFunc: s.DelSMSListener(s.AddSMSListener(...)), the outer call
WaitSMSDelNow(w) ==
    /\ ~aborted
    /\ spc[w] = "delNow"
    /\ mapSMSEvents' = Without(mapSMSEvents, sub[w])
    /\ spc' = [spc EXCEPT ![w] = "inits"]
    /\ UNCHANGED <<portVars, besidesSMS, nextSMSEvent, fanouts, smsCalls, smsErrors, sarg,
                   sub, sresult, sres>>

\* the call of w returns res; what is deferred is still to run
WaitSMSReturn(w, res) ==
    /\ sres' = [sres EXCEPT ![w] = res]
    /\ spc' = [spc EXCEPT ![w] =
                 IF sarg[w].fn = "WaitSMSText" THEN "del" ELSE "done"]

\* what a call returns that returns err, the result of a setup function
SetupResult(err) ==
    [kind |-> IF err = "err" THEN "SetupError" ELSE "ok", text |-> <<>>]

\* a loop that calls every setup function, returns the first error and
\* goes on to the select when there is none
WaitSMSInitsAll(w) ==
    /\ ~aborted
    /\ spc[w] = "inits"
    /\ LET inits == sarg[w].inits
           failed == {i \in DOMAIN inits : inits[i] = "err"}
           last == IF failed = {} THEN Len(inits)
                   ELSE CHOOSE i \in failed : \A j \in failed : i <= j
       IN /\ setupRuns' = [setupRuns EXCEPT ![w] = [i \in 1..last |-> i]]
          /\ IF failed = {}
             THEN spc' = [spc EXCEPT ![w] = "select"] /\ UNCHANGED sres
             ELSE WaitSMSReturn(w, SetupResult("err"))
    /\ UNCHANGED <<portVars, besidesSetup, mapSMSEvents, nextSMSEvent, fanouts,
                   smsCalls, smsErrors, sarg, sub, sresult>>

\* for _, init := range inits { err := init(); return "", err }
WaitSMSInits(w) ==
    /\ ~aborted
    /\ spc[w] = "inits"
    /\ IF sarg[w].inits = <<>>
       THEN /\ spc' = [spc EXCEPT ![w] = "select"]
            /\ UNCHANGED <<sres, setupRuns>>
       ELSE /\ setupRuns' = [setupRuns EXCEPT ![w] = Append(@, 1)]
            /\ WaitSMSReturn(w, SetupResult(Head(sarg[w].inits)))
    /\ UNCHANGED <<portVars, besidesSetup, mapSMSEvents, nextSMSEvent, fanouts,
                   smsCalls, smsErrors, sarg, sub, sresult>>

\* case str := <-result: return str, nil
WaitSMSMatched(w) ==
    /\ ~aborted
    /\ spc[w] = "select"
    /\ sresult[w] # <<>>
    /\ sresult' = [sresult EXCEPT ![w] = Tail(@)]
    /\ WaitSMSReturn(w, [kind |-> "ok", text |-> Head(sresult[w])])
    /\ UNCHANGED <<portVars, besidesSMS, mapSMSEvents, nextSMSEvent, fanouts, smsCalls,
                   smsErrors, sarg, sub>>

\* case <-time.After(timeout): return an error
WaitSMSTimeout(w) ==
    /\ ~aborted
    /\ spc[w] = "select"
    /\ sresult[w] = <<>>
    /\ WaitSMSReturn(w, [kind |-> "Timeout", text |-> <<>>])
    /\ UNCHANGED <<portVars, besidesSMS, mapSMSEvents, nextSMSEvent, fanouts, smsCalls,
                   smsErrors, sarg, sub, sresult>>

\* the deferred s.DelSMSListener(id) of WaitSMSText
WaitSMSDel(w) ==
    /\ ~aborted
    /\ spc[w] = "del"
    /\ mapSMSEvents' = Without(mapSMSEvents, sub[w])
    /\ spc' = [spc EXCEPT ![w] = "done"]
    /\ UNCHANGED <<portVars, besidesSMS, nextSMSEvent, fanouts, smsCalls, smsErrors, sarg,
                   sub, sresult, sres>>

\* go fn(msg) for the listener of call w, started by goroutine f
SMSGoroutine(w, f) == [w |-> w, msg |-> fanouts[f].msg, by |-> f, pc |-> "start"]

\* s.SMSEventLock.RLock(); for _, fn := range s.mapSMSEvents { go fn(msg) };
\* s.SMSEventLock.RUnlock().  A listener of user code has no effect here
SMSFanOut(f) ==
    /\ ~aborted
    /\ fanouts[f].pc = "start"
    /\ LET ids == KeysOf({i \in DOMAIN mapSMSEvents : mapSMSEvents[i] \in Waiters})
       IN smsCalls' = smsCalls \o
              [i \in DOMAIN ids |-> SMSGoroutine(mapSMSEvents[ids[i]], f)]
    /\ fanouts' = [fanouts EXCEPT
                     ![f].pc = "done",
                     ![f].waiting = {w \in Waiters : spc[w] = "select"}]
    /\ UNCHANGED <<portVars, besidesSMS, mapSMSEvents, nextSMSEvent, smsErrors, spc, sarg,
                   sub, sresult, sres>>

\* the listener of a call runs on a message: if it takes it, result <- msg.Text
\* (result <- struct{}{} in WaitSMSFunc); the send waits while result is full
SMSCallback(g) ==
    /\ ~aborted
    /\ smsCalls[g].pc = "start"
    /\ LET w == smsCalls[g].w
           msg == smsCalls[g].msg
       IN IF Accepts(w, msg)
          THEN /\ Len(sresult[w]) < 1
               /\ sresult' = [sresult EXCEPT ![w] =
                     Append(@, IF sarg[w].fn = "WaitSMSText" THEN msg.Text ELSE <<>>)]
          ELSE UNCHANGED sresult
    /\ smsCalls' = [smsCalls EXCEPT ![g].pc = "done"]
    /\ UNCHANGED <<portVars, besidesSMS, mapSMSEvents, nextSMSEvent, fanouts, smsErrors,
                   spc, sarg, sub, sres>>

(***************************************************************************)
(* AddSMSListener and DelSMSListener, called by user code.                 *)
(***************************************************************************)
\* AddSMSListener(fn) is called: id := atomic.AddUint64(&s.nextSMSEvent, 1)
RegAdd(r) ==
    /\ ~aborted
    /\ rpc[r] = "idle"
    /\ nextSMSEvent < MaxIds
    /\ nextSMSEvent' = nextSMSEvent + 1
    /\ rid' = [rid EXCEPT ![r] = nextSMSEvent + 1]
    /\ rpc' = [rpc EXCEPT ![r] = "store"]
    /\ UNCHANGED <<portVars, besidesReg, mapSMSEvents, fanouts, smsCalls,
                   smsErrors, spc, sarg, sub, sresult, sres>>

\* s.mapSMSEvents[id] = fn under SMSEventLock; return id
RegStore(r) ==
    /\ ~aborted
    /\ rpc[r] = "store"
    /\ mapSMSEvents' = (rid[r] :> 0) @@ mapSMSEvents
    /\ rpc' = [rpc EXCEPT ![r] = "added"]
    /\ UNCHANGED <<portVars, besidesReg, rid, nextSMSEvent, fanouts,
                   smsCalls, smsErrors, spc, sarg, sub, sresult, sres>>

\* DelSMSListener(id) of the id AddSMSListener returned
RegDel(r) ==
    /\ ~aborted
    /\ rpc[r] = "added"
    /\ mapSMSEvents' = Without(mapSMSEvents, rid[r])
    /\ rpc' = [rpc EXCEPT ![r] = "idle"]
    /\ UNCHANGED <<portVars, besidesReg, rid, nextSMSEvent, fanouts,
                   smsCalls, smsErrors, spc, sarg, sub, sresult, sres>>

(***************************************************************************)
(* SIM900.Call.                                                            *)
(***************************************************************************)
\* re = `\^CEND:[,\d]+[^,\d]`
callEndPattern ==
    << <<Lit("^"), Lit("C"), Lit("E"), Lit("N"), Lit("D"), Lit(":"),
         CommaDigitsPlus, NotCommaDigit>> >>

\* Call(phoneNumber, timeout) is called: s.PortMu.Lock(), time.Sleep,
\* result := make(chan string, 1)
CallCall ==
    /\ ~aborted
    /\ callpc = "idle"
    /\ CanLock(PortMu)
    /\ PortMu' = [PortMu EXCEPT !.w = TRUE]
    /\ callpc' = "add"
    /\ UNCHANGED <<devVars, readerVars, rxChar, rxData, Opened, NeedRx, RxMu,
                   registryVars, eventMapLock, framerVars, listeners,
                   routerVars, call, pc, result, c1, timeExpired, waiterVars,
                   aborted, besidesCall, wire, callSub, callResult, callRes,
                   callWroteAt>>

\* s.Port.AddOutputListener(func(bs []byte) {...}): the argument of the
\* deferred DelOutputListener is evaluated where the defer statement is
CallAdd ==
    /\ ~aborted
    /\ callpc = "add"
    /\ CanLock(eventMapLock)
    /\ eventNextID' = eventNextID + 1
    /\ eventMap' = [i \in DOMAIN eventMap \cup {eventNextID'} |->
                      IF i = eventNextID' THEN "call" ELSE eventMap[i]]
    /\ callSub' = eventNextID'
    /\ callpc' = "println"
    /\ UNCHANGED <<devVars, readerVars, rxChar, rxData, Opened, NeedRx, RxMu,
                   eventMapLock, framerVars, listeners, routerVars, callerVars,
                   waiterVars, aborted, besidesCall, wire, callResult, callRes,
                   callWroteAt>>

\* err := s.Port.Println("ATD" + phoneNumber + ";"); if err != nil return "",
\* err: the write fails when the port is not opened or Port.Write fails
CallPrintln(written) ==
    /\ ~aborted
    /\ callpc = "println"
    /\ IF Opened = 1 /\ written
       THEN /\ wire' = Append(wire, "ATD")
            /\ callWroteAt' = devPos
            /\ callpc' = "select"
            /\ UNCHANGED callRes
       ELSE /\ Opened # 1 => written
            /\ callRes' = [kind |-> IF Opened = 1 THEN "WriteError" ELSE "NotOpened",
                           text |-> <<>>]
            /\ callpc' = "del"
            /\ UNCHANGED <<wire, callWroteAt>>
    /\ UNCHANGED <<portVars, PortMu, besidesCall, callSub, callResult>>

\* case ret := <-result: return ret, nil
CallMatched ==
    /\ ~aborted
    /\ callpc = "select"
    /\ callResult # <<>>
    /\ callRes' = [kind |-> "ok", text |-> Head(callResult)]
    /\ callResult' = Tail(callResult)
    /\ callpc' = "del"
    /\ UNCHANGED <<portVars, PortMu, besidesCall, wire, callSub, callWroteAt>>

\* case <-time.After(timeout): return "", errors.New("Wait call timeout")
CallTimeout ==
    /\ ~aborted
    /\ callpc = "select"
    /\ callResult = <<>>
    /\ callRes' = [kind |-> "Timeout", text |-> <<>>]
    /\ callpc' = "del"
    /\ UNCHANGED <<portVars, PortMu, besidesCall, wire, callSub, callResult,
                   callWroteAt>>

\* the deferred calls run: s.Port.DelOutputListener(id), s.PortMu.Unlock()
CallDel ==
    /\ ~aborted
    /\ callpc = "del"
    /\ CanLock(eventMapLock)
    /\ eventMap' = [i \in DOMAIN eventMap \ {callSub} |-> eventMap[i]]
    /\ PortMu' = [PortMu EXCEPT !.w = FALSE]
    /\ callpc' = "done"
    /\ UNCHANGED <<devVars, readerVars, rxChar, rxData, Opened, NeedRx, RxMu,
                   eventNextID, eventMapLock, framerVars, listeners,
                   routerVars, call, pc, result, c1, timeExpired, waiterVars,
                   aborted, besidesCall, wire, callSub, callResult, callRes,
                   callWroteAt>>

\* the listener of Call runs on its frame: m := re.FindSubmatch(bs); if
\* len(m) > 0, result <- string(m[0]); the send waits while result is full
CallListenerStep(g) ==
    /\ ~aborted
    /\ g \in DOMAIN listeners
    /\ listeners[g].fn = "call"
    /\ listeners[g].pc = "start"
    /\ LET m == FindStringSubmatch(callEndPattern, listeners[g].frame)
       IN IF m.found
          THEN /\ Len(callResult) < 1
               /\ callResult' = Append(callResult, m.text)
          ELSE UNCHANGED callResult
    /\ listeners' = [listeners EXCEPT ![g].pc = "done"]
    /\ UNCHANGED <<devVars, readerVars, rxChar, rxData, Opened, NeedRx, RxMu,
                   registryVars, eventMapLock, framerVars, routerVars,
                   callerVars, waiterVars, aborted, besidesCall, wire, callpc,
                   callSub, callRes, callWroteAt>>

(***************************************************************************)
(* SIM900.Init: the commands.                                              *)
(***************************************************************************)
\* the commands of Init in the order of its statements, AT+CSCA? of getCSCA
\* last
InitCmds ==
    <<"AT", "ATE0", "AT+CMGF=0", "AT+CNMI=1,2,0,0,0",
      "AT+CPMS=\"ME\",\"ME\",\"ME\"", "AT+CLIP=1", "AT+CSCA?">>

\* `(\+CSCA:\s*"(\+\d+)"($|\W))`
cscaPattern ==
    << <<Lit("+"), Lit("C"), Lit("S"), Lit("C"), Lit("A"), Lit(":"), SpaceStar,
         Lit("\""), Lit("+"), DigitsPlus, Lit("\""), Eos>> >>

\* response[2] of a match of cscaPattern: what is between the quotes
Response2(response) ==
    LET q == FindStringSubmatch(<< <<Lit("\""), Lit("+"), DigitsPlus, Lit("\"")>> >>,
                                response)
    IN SubSeq(q.text, 2, Len(q.text) - 1)

\* what the device answers to AT+CSCA?
CscaReplies ==
    {<<"+", "C", "S", "C", "A", ":", " ", "\"", "+", "8", "4", "\"", "\n">>}

\* what Wait4response may come back with: a response, or one of its errors
W4rOutcomes == {"ok", "DeviceError", "Timeout", "WriteError", "NotOpened"}

\* Wait4response has written its command unless the port was not opened or
\* Println failed
Wrote(outcome) == outcome \notin {"WriteError", "NotOpened"}

\* the value of initpc when Init has returned
Returned == 9

\* every statement goes on to the next one whatever Wait4response returned
AfterStepRegardless(step, outcome) == step + 1

\* if err != nil { return err }: where Init goes after the call of a step
AfterStep(step, outcome) == IF outcome = "ok" THEN step + 1 ELSE Returned

\* Init is called: time.Sleep, the patterns, s.Port.AddOutputListener(...)
InitListen ==
    /\ ~aborted
    /\ initpc = 0
    /\ CanLock(eventMapLock)
    /\ eventNextID' = eventNextID + 1
    /\ eventMap' = [i \in DOMAIN eventMap \cup {eventNextID'} |->
                      IF i = eventNextID' THEN "router" ELSE eventMap[i]]
    /\ initpc' = 1
    /\ UNCHANGED <<devVars, readerVars, rxChar, rxData, Opened, NeedRx, RxMu,
                   eventMapLock, framerVars, listeners, routerVars, callerVars,
                   waiterVars, aborted, besidesInit, wire, initAt, initErr,
                   CSCA>>

\* _, err := s.Wait4response(cmd, CMD_OK, time.Second*5); if err != nil
\* { return err }, for each of the six commands before getCSCA.  What
\* Wait4response does is left open here: it comes back with any outcome
InitStep(outcome) ==
    /\ ~aborted
    /\ initpc \in 1..6
    /\ wire' = IF Wrote(outcome) THEN Append(wire, InitCmds[initpc]) ELSE wire
    /\ initpc' = AfterStep(initpc, outcome)
    /\ IF initpc' = Returned
       THEN initErr' = outcome /\ initAt' = initpc
       ELSE UNCHANGED <<initErr, initAt>>
    /\ UNCHANGED <<portVars, besidesInit, CSCA>>

\* csca, err := s.getCSCA(); if err != nil { return err }; s.CSCA = csca;
\* return nil.  getCSCA returns response[2], or "" with the error
InitGetCSCA(outcome, reply) ==
    /\ ~aborted
    /\ initpc = 7
    /\ wire' = IF Wrote(outcome) THEN Append(wire, InitCmds[initpc]) ELSE wire
    /\ LET response == FindStringSubmatch(cscaPattern, reply)
           csca == IF outcome = "ok" THEN Response2(response.text) ELSE <<>>
       IN /\ outcome = "ok" => response.found
          /\ IF AfterStep(initpc, outcome) = Returned
             THEN UNCHANGED CSCA /\ initErr' = outcome
             ELSE CSCA' = csca /\ initErr' = "nil"
    /\ initpc' = Returned
    /\ initAt' = 7
    /\ UNCHANGED <<portVars, besidesInit>>

(***************************************************************************)
(* SIM900.SendSMS.                                                         *)
(***************************************************************************)
\* `\+CMS ERROR: \d+($|\W)`
CmsError ==
    <<Lit("+"), Lit("C"), Lit("M"), Lit("S"), Lit(" "), Lit("E"), Lit("R"),
      Lit("R"), Lit("O"), Lit("R"), Lit(":"), Lit(" "), DigitsPlus, Eos>>

\* `(> )|(\+CMS ERROR: \d+($|\W))`
promptPattern == << <<Lit(">"), Lit(" ")>>, CmsError >>

\* `(\+CMGS: (\d+)($|\W))|(\+CMS ERROR: \d+($|\W))`
cmgsPattern ==
    << <<Lit("+"), Lit("C"), Lit("M"), Lit("G"), Lit("S"), Lit(":"), Lit(" "),
         DigitsPlus, Eos>>,
       CmsError >>

\* response[2] of a match of cmgsPattern by its first alternative: (\d+)
CmgsId(response) == FindStringSubmatch(<< <<DigitsPlus>> >>, response).text

\* if len(text) > 160
MaxSMSLen == 160

\* a length check that lets every text through
NeverTooLong(len) == FALSE

TooLong(len) == len > MaxSMSLen

\* the lengths of the texts SendSMS is called with
TextLens == {MaxSMSLen, MaxSMSLen + 1}

\* SendSMS is the one caller of wait4response while it holds PortMu: it uses
\* the first caller's place in WaitForRegexTimeout
Sender == FirstCaller

\* what SendSMS has written: the command, the payload, its terminator
WroteCmgs == "AT+CMGS"

WrotePdu == "PDU"

WroteCtrlZ == "CTRL_Z"

\* SendSMS returns res: the deferred s.PortMu.Unlock() runs
SendReturn(res) ==
    /\ sendRes' = res
    /\ PortMu' = [PortMu EXCEPT !.w = FALSE]
    /\ sendpc' = "done"
    /\ pc' = [pc EXCEPT ![Sender] = "done"]

\* SendSMS(address, text) is called: if len(text) > 160 return an error
SendSMSCall(len) ==
    /\ ~aborted
    /\ sendpc = "idle"
    /\ sendLen' = len
    /\ IF TooLong(len)
       THEN /\ sendRes' = [kind |-> "TooLong", text |-> <<>>]
            /\ sendpc' = "done"
       ELSE /\ sendpc' = "portlock"
            /\ UNCHANGED sendRes
    /\ UNCHANGED <<portVars, besidesSend, wire, sendPrompt>>

\* s.PortMu.Lock(), time.Sleep, msg.PDU(), and into the first wait4response:
\* in WaitForRegexTimeout if atomic.LoadInt32(&sp.Opened) == 1, to RxMu.Lock
SendPortLock ==
    /\ ~aborted
    /\ sendpc = "portlock"
    /\ CanLock(PortMu)
    /\ IF Opened = 1
       THEN /\ PortMu' = [PortMu EXCEPT !.w = TRUE]
            /\ pc' = [pc EXCEPT ![Sender] = "lock"]
            /\ call' = [call EXCEPT ![Sender] =
                           [cmd |-> <<>>, expected |-> promptPattern, wroteAt |-> 0]]
            /\ sendpc' = "prompt"
            /\ UNCHANGED sendRes
       ELSE /\ sendRes' = [kind |-> "NotOpened", text |-> <<>>]
            /\ sendpc' = "done"
            /\ UNCHANGED <<PortMu, pc, call>>
    /\ UNCHANGED <<devVars, readerVars, rxChar, rxData, Opened, NeedRx, RxMu,
                   registryVars, eventMapLock, framerVars, listeners,
                   routerVars, c1, timeExpired, result, waiterVars, aborted,
                   besidesSend, wire, sendLen, sendPrompt>>

\* cmd is "": no Println; for _, fn := range inits { err := fn(); if err !=
\* nil return nil, err }: the setup function prints AT+CMGS=n\r in the first
\* wait and CMD_CTRL_Z in the second
SendSetup(written) ==
    /\ ~aborted
    /\ sendpc \in {"prompt", "final"}
    /\ pc[Sender] = "println"
    /\ IF Opened = 1 /\ written
       THEN /\ wire' = Append(wire, IF sendpc = "prompt" THEN WroteCmgs ELSE WroteCtrlZ)
            /\ pc' = [pc EXCEPT ![Sender] = "select"]
            /\ call' = [call EXCEPT ![Sender].wroteAt = devPos]
            /\ UNCHANGED <<sendRes, sendpc, PortMu>>
       ELSE /\ Opened # 1 => written
            /\ SendReturn([kind |-> IF Opened = 1 THEN "WriteError" ELSE "NotOpened",
                           text |-> <<>>])
            /\ UNCHANGED <<wire, call>>
    /\ UNCHANGED <<devVars, readerVars, rxChar, rxData, Opened, NeedRx, RxMu,
                   registryVars, eventMapLock, framerVars, listeners,
                   routerVars, c1, timeExpired, result, waiterVars, aborted,
                   besidesSend, sendLen, sendPrompt>>

\* case data := <-c1: return data, nil; wait4response checks it; after the
\* first wait SendSMS goes on to its payload, after the second it returns
\* response[2]
SendMatched ==
    /\ ~aborted
    /\ sendpc \in {"prompt", "final"}
    /\ pc[Sender] = "select"
    /\ c1[Sender] # <<>>
    /\ c1' = [c1 EXCEPT ![Sender] = <<>>]
    /\ LET r == Checked(Head(c1[Sender]))
       IN IF r.kind # "ok"
          THEN SendReturn(r) /\ UNCHANGED sendPrompt
          ELSE IF sendpc = "prompt"
          THEN /\ sendpc' = "octets"
               /\ sendPrompt' = r.text
               /\ pc' = [pc EXCEPT ![Sender] = "between"]
               /\ UNCHANGED <<sendRes, PortMu>>
          ELSE /\ SendReturn([kind |-> "ok", text |-> CmgsId(r.text)])
               /\ UNCHANGED sendPrompt
    /\ UNCHANGED <<devVars, readerVars, rxChar, rxData, Opened, NeedRx, RxMu,
                   registryVars, eventMapLock, framerVars, listeners,
                   routerVars, call, timeExpired, result, waiterVars, aborted,
                   besidesSend, wire, sendLen>>

\* case <-time.After(timeout): timeExpired = true; return nil, Timeout
SendTimeout ==
    /\ ~aborted
    /\ sendpc \in {"prompt", "final"}
    /\ pc[Sender] = "select"
    /\ c1[Sender] = <<>>
    /\ timeExpired' = [timeExpired EXCEPT ![Sender] = TRUE]
    /\ SendReturn([kind |-> "Timeout", text |-> <<>>])
    /\ UNCHANGED <<devVars, readerVars, rxChar, rxData, Opened, NeedRx, RxMu,
                   registryVars, eventMapLock, framerVars, listeners,
                   routerVars, call, c1, result, waiterVars, aborted,
                   besidesSend, wire, sendLen, sendPrompt>>

\* err = s.Port.Print(fmt.Sprintf("%02X", octets)); time.Sleep; and into the
\* second wait4response
SendOctets(written) ==
    /\ ~aborted
    /\ sendpc = "octets"
    /\ IF Opened = 1 /\ written
       THEN /\ wire' = Append(wire, WrotePdu)
            /\ pc' = [pc EXCEPT ![Sender] = "lock"]
            /\ call' = [call EXCEPT ![Sender] =
                           [cmd |-> <<>>, expected |-> cmgsPattern, wroteAt |-> 0]]
            /\ sendpc' = "final"
            /\ UNCHANGED <<sendRes, PortMu>>
       ELSE /\ Opened # 1 => written
            /\ SendReturn([kind |-> IF Opened = 1 THEN "WriteError" ELSE "NotOpened",
                           text |-> <<>>])
            /\ UNCHANGED <<wire, call>>
    /\ UNCHANGED <<devVars, readerVars, rxChar, rxData, Opened, NeedRx, RxMu,
                   registryVars, eventMapLock, framerVars, listeners,
                   routerVars, c1, timeExpired, result, waiterVars, aborted,
                   besidesSend, sendLen, sendPrompt>>

\* the device answers: the prompt once the command has been written, the
\* rest once the terminator of the payload has been
Asked ==
    IF devPos = 1 THEN \E i \in DOMAIN wire : wire[i] = WroteCmgs
    ELSE \E i \in DOMAIN wire : wire[i] = WroteCtrlZ

DeviceAnswer ==
    /\ Asked
    /\ DeviceEmit

(***************************************************************************)
(* SerialPort.Close, and the goroutines of the port when the port closes.  *)
(***************************************************************************)
\* a run-time panic in a goroutine that does not recover ends the process
Panic(cause) ==
    /\ aborted' = TRUE
    /\ closePanic' = cause

\* the callers of WaitForRegexTimeout whose command is in flight
InFlightNow == {c \in Callers : pc[c] \in {"lock", "println", "select"} /\ c1[c] = <<>>}

\* Close is called: sp.Println("\x1A"), whose error is dropped
CloseCall(k, written) ==
    /\ ~aborted
    /\ closepc[k] = "idle"
    /\ \A j \in Closers : j < k => closepc[j] # "idle"
    /\ wire' = IF Opened = 1 /\ written THEN Append(wire, WroteCtrlZ) ELSE wire
    /\ Opened # 1 => written
    /\ closepc' = [closepc EXCEPT ![k] = "check"]
    /\ UNCHANGED <<portVars, besidesClose, rxCharClosed, rxDataClosed, portClosed,
                   readerChecked, closePanic, pendingAtClose>>

\* if atomic.LoadInt32(&sp.Opened) == 1 {...}; return nil
CloseCheck(k) ==
    /\ ~aborted
    /\ closepc[k] = "check"
    /\ closepc' = [closepc EXCEPT ![k] = IF Opened = 1 THEN "store" ELSE "done"]
    /\ UNCHANGED <<portVars, besidesClose, wire, rxCharClosed, rxDataClosed,
                   portClosed, readerChecked, closePanic, pendingAtClose>>

\* atomic.StoreInt32(&sp.Opened, 0)
CloseStore(k) ==
    /\ ~aborted
    /\ closepc[k] = "store"
    /\ Opened' = 0
    /\ pendingAtClose' = IF Opened = 1 THEN InFlightNow ELSE pendingAtClose
    /\ closepc' = [closepc EXCEPT ![k] = "rxChar"]
    /\ UNCHANGED <<devVars, readerVars, rxChar, rxData, NeedRx, RxMu,
                   registryVars, eventMapLock, framerVars, listeners,
                   routerVars, callerVars, waiterVars, aborted, besidesClose,
                   wire, rxCharClosed, rxDataClosed, portClosed, readerChecked,
                   closePanic>>

\* close(sp.rxChar): of a closed channel it is a run-time panic
CloseRxChar(k) ==
    /\ ~aborted
    /\ closepc[k] = "rxChar"
    /\ IF rxCharClosed
       THEN /\ Panic("close of closed channel")
            /\ UNCHANGED <<rxCharClosed, closepc>>
       ELSE /\ rxCharClosed' = TRUE
            /\ closepc' = [closepc EXCEPT ![k] = "rxData"]
            /\ UNCHANGED <<aborted, closePanic>>
    /\ UNCHANGED <<devVars, readerVars, rxChar, rxData, Opened, NeedRx, RxMu,
                   registryVars, eventMapLock, framerVars, listeners,
                   routerVars, callerVars, waiterVars, besidesClose, wire,
                   rxDataClosed, portClosed, readerChecked, pendingAtClose>>

\* close(sp.rxData); sp.log("Port closed"); return sp.Port.Close()
CloseRxData(k) ==
    /\ ~aborted
    /\ closepc[k] = "rxData"
    /\ IF rxDataClosed
       THEN /\ Panic("close of closed channel")
            /\ UNCHANGED <<rxDataClosed, portClosed, closepc>>
       ELSE /\ rxDataClosed' = TRUE
            /\ portClosed' = TRUE
            /\ closepc' = [closepc EXCEPT ![k] = "done"]
            /\ UNCHANGED <<aborted, closePanic>>
    /\ UNCHANGED <<devVars, readerVars, rxChar, rxData, Opened, NeedRx, RxMu,
                   registryVars, eventMapLock, framerVars, listeners,
                   routerVars, callerVars, waiterVars, besidesClose, wire,
                   rxCharClosed, readerChecked, pendingAtClose>>

\* readSerialPort, one turn of for _, b := range rxBuff[:n]: the test
\* if atomic.LoadInt32(&sp.Opened) == 1, else break
ReaderCheck ==
    /\ ~aborted
    /\ rxBuff # <<>>
    /\ ~readerChecked
    /\ IF Opened = 1
       THEN readerChecked' = TRUE /\ UNCHANGED rxBuff
       ELSE rxBuff' = <<>> /\ UNCHANGED readerChecked
    /\ UNCHANGED <<devVars, rxChar, rxData, Opened, NeedRx, RxMu, registryVars,
                   eventMapLock, framerVars, listeners, routerVars,
                   callerVars, waiterVars, aborted, besidesClose, wire,
                   closepc, rxCharClosed, rxDataClosed, portClosed, closePanic,
                   pendingAtClose>>

\* sp.rxChar <- b: on a closed channel it is a run-time panic, and
\* readSerialPort has no recover
ReaderSend ==
    /\ ~aborted
    /\ readerChecked
    /\ IF rxCharClosed
       THEN /\ Panic("send on closed channel")
            /\ UNCHANGED <<rxChar, rxBuff, readerChecked>>
       ELSE /\ Len(rxChar) < RxCharCap
            /\ rxChar' = Append(rxChar, Head(rxBuff))
            /\ rxBuff' = Tail(rxBuff)
            /\ readerChecked' = FALSE
            /\ UNCHANGED <<aborted, closePanic>>
    /\ UNCHANGED <<devVars, rxData, Opened, NeedRx, RxMu, registryVars,
                   eventMapLock, framerVars, listeners, routerVars,
                   callerVars, waiterVars, besidesClose, wire, closepc,
                   rxCharClosed, rxDataClosed, portClosed, pendingAtClose>>

\* processSerialPort: if atomic.LoadInt32(&sp.Opened) == 1 {...} else break
FramerExit ==
    /\ ~aborted
    /\ framerpc = "select"
    /\ Opened # 1
    /\ framerpc' = "exited"
    /\ UNCHANGED <<devVars, readerVars, rxChar, rxData, Opened, NeedRx, RxMu,
                   registryVars, eventMapLock, screenBuff, rxTimer, visited,
                   published, listeners, routerVars, callerVars, waiterVars,
                   aborted, extVars>>

\* sp.rxData <- string(screenBuff) on the closed channel: a run-time panic,
\* which the deferred recover() of processSerialPort swallows
FramerSendClosed ==
    /\ ~aborted
    /\ framerpc = "send"
    /\ rxDataClosed
    /\ framerpc' = "recovered"
    /\ UNCHANGED <<devVars, readerVars, rxChar, rxData, Opened, NeedRx, RxMu,
                   registryVars, eventMapLock, screenBuff, rxTimer, visited,
                   published, listeners, routerVars, callerVars, waiterVars,
                   aborted, extVars>>

\* lines += <-sp.rxData on the closed and empty channel: the receive returns
\* "" at once, lines is what it was and has no match, and the loop goes on
WaiterRecvClosed(c) ==
    /\ ~aborted
    /\ wpc[c] = "recv"
    /\ rxData = <<>>
    /\ rxDataClosed
    /\ wpc' = [wpc EXCEPT ![c] = "loop"]
    /\ UNCHANGED <<devVars, readerVars, rxChar, rxData, Opened, NeedRx, RxMu,
                   registryVars, eventMapLock, framerVars, listeners,
                   routerVars, callerVars, lines, matchedIn, aborted,
                   extVars>>

(***************************************************************************)
(* The specifications.                                                     *)
(***************************************************************************)
\* the device answers ERROR
ScriptError == <<Chunk(ERROR, 0)>>

\* the device sends O and, before the line has gone idle, K
ScriptShortGap == <<Chunk(<<"O">>, 0), Chunk(<<"K">>, ShortGap)>>

\* the device sends O and, after the line has gone idle, K
ScriptLongGap == <<Chunk(<<"O">>, 0), Chunk(<<"K">>, LongGap)>>

\* the device answers OK
ScriptOK == <<Chunk(FrameOK, 0)>>

\* the device rings twice
ScriptRingRing == <<Chunk(FrameRing, 0), Chunk(FrameRing, LongGap)>>

\* the device reports the end of a call that never rang
ScriptCEnd == <<Chunk(FrameCEnd, 0)>>

\* the device rings, then reports the end of the call
ScriptRingCEnd == <<Chunk(FrameRing, 0), Chunk(FrameCEnd, LongGap)>>

Scripts == {ScriptError, ScriptShortGap}

Init == InitWith(Scripts)

\* the device, the clock, the reader, the framer and the registry
NextTransport ==
    \/ DeviceEmit
    \/ Tick
    \/ ReaderRead
    \/ ReaderPush
    \/ AddOutputListener
    \/ \E id \in 1..eventNextID : DelOutputListener(id)
    \/ FramerRxChar
    \/ FramerTimer
    \/ FramerRLock
    \/ \E id \in DOMAIN eventMap : FramerDispatch(id)
    \/ FramerLock
    \/ FramerRUnlock
    \/ FramerRUnlockMisuse
    \/ FramerNeedRx

\* the callers of Wait4response and the goroutines they start
NextCommands ==
    \/ FramerSend
    \/ \E c \in Callers, cmd \in Cmds, e \in Expecteds : W4rCall(c, cmd, e)
    \/ \E c \in Callers : WfrLock(c)
    \/ \E c \in Callers, written \in BOOLEAN : WfrPrintln(c, written)
    \/ \E c \in Callers : WfrMatched(c)
    \/ \E c \in Callers : WfrTimeout(c)
    \/ \E c \in Callers, seen \in BOOLEAN : WaiterLoop(c, seen)
    \/ \E c \in Callers : WaiterRecv(c)
    \/ \E c \in Callers : WaiterExit(c)

\* the listener of SIM900.Init
NextRouter ==
    \/ InitAddListener
    \/ \E g \in DOMAIN listeners : ListenerStep(g)

Next == NextTransport \/ NextCommands

\* commands on a port whose device answers ERROR, or OK in two bytes
Spec == Init /\ [][Next]_vars

InitFrames == InitWith({ScriptShortGap, ScriptLongGap})

\* commands on a port whose device sends two bytes, a gap between them
SpecFrames == InitFrames /\ [][Next]_vars

InitRouter == InitWith({ScriptRingRing, ScriptCEnd, ScriptRingCEnd})

NextListening == NextTransport \/ NextRouter

\* a session that issues no command and listens for calls
SpecRouter == InitRouter /\ [][NextListening]_vars

\* a message from AddrA and one from AddrB, in one frame
FrameTwoSMS ==
    <<"+", "C", "M", "T", ":", "1", "\n", "0", "A", "1", "1", "\n",
      "+", "C", "M", "T", ":", "1", "\n", "0", "B", "2", "2">>

ScriptTwoSMS == <<Chunk(FrameTwoSMS, 0)>>

InitSMS == InitWith({ScriptTwoSMS})

NextSMS ==
    \/ \E w \in Waiters, fn \in WaitFns, p \in PhoneNumbers, i \in InitsGiven :
          WaitSMSCall(w, fn, p, i)
    \/ \E w \in Waiters : WaitSMSStore(w)
    \/ \E w \in Waiters : WaitSMSDelNow(w)
    \/ \E w \in Waiters : WaitSMSInits(w)
    \/ \E w \in Waiters : WaitSMSMatched(w)
    \/ \E w \in Waiters : WaitSMSTimeout(w)
    \/ \E w \in Waiters : WaitSMSDel(w)
    \/ \E f \in DOMAIN fanouts : SMSFanOut(f)
    \/ \E g \in DOMAIN smsCalls : SMSCallback(g)

NextMessages == NextTransport \/ NextRouter \/ NextSMS

\* a session that waits for messages
SpecSMS == InitSMS /\ [][NextMessages]_vars

\* the device reports the end of a call
ScriptCallEnd == <<Chunk(FrameCallEnd, 0)>>

InitCall == InitWith({ScriptCallEnd})

NextCall ==
    \/ CallCall
    \/ CallAdd
    \/ \E written \in BOOLEAN : CallPrintln(written)
    \/ CallMatched
    \/ CallTimeout
    \/ CallDel
    \/ \E g \in DOMAIN listeners : CallListenerStep(g)

\* the device, the clock, the reader and the framer
NextPort ==
    \/ DeviceEmit
    \/ Tick
    \/ ReaderRead
    \/ ReaderPush
    \/ FramerRxChar
    \/ FramerTimer
    \/ FramerRLock
    \/ \E id \in DOMAIN eventMap : FramerDispatch(id)
    \/ FramerLock
    \/ FramerRUnlock
    \/ FramerRUnlockMisuse
    \/ FramerNeedRx

NextCalling == NextPort \/ NextCall

\* a session that places a call
SpecCall == InitCall /\ [][NextCalling]_vars

\* the device is silent
ScriptNone == <<>>

InitIds == InitWith({ScriptNone})

NextIds ==
    \/ AddOutputListener
    \/ \E id \in 1..eventNextID : DelOutputListener(id)
    \/ InitAddListener
    \/ CallCall
    \/ CallAdd
    \/ \E written \in BOOLEAN : CallPrintln(written)
    \/ CallTimeout
    \/ CallDel
    \/ \E r \in Registrants : RegAdd(r)
    \/ \E r \in Registrants : RegStore(r)
    \/ \E r \in Registrants : RegDel(r)

\* a session in which listeners come and go at both registries
SpecIds == InitIds /\ [][NextIds]_vars

InitInit == InitWith({ScriptOK})

NextInit ==
    \/ InitListen
    \/ \E outcome \in W4rOutcomes : InitStep(outcome)
    \/ \E outcome \in W4rOutcomes, reply \in CscaReplies : InitGetCSCA(outcome, reply)
    \/ \E g \in DOMAIN listeners : ListenerStep(g)

NextInitializing == NextPort \/ NextInit

\* a session that calls Init
SpecInit == InitInit /\ [][NextInitializing]_vars

\* the device prompts for the payload and, later, reports the message sent
ScriptSent == <<Chunk(FramePrompt, 0), Chunk(FrameCmgs, LongGap)>>

\* the device refuses the command
ScriptRefused == <<Chunk(FrameCmsError, 0)>>

InitSend == InitWith({ScriptSent, ScriptRefused})

NextSend ==
    \/ DeviceAnswer
    \/ Tick
    \/ ReaderRead
    \/ ReaderPush
    \/ AddOutputListener
    \/ \E id \in 1..eventNextID : DelOutputListener(id)
    \/ FramerRxChar
    \/ FramerTimer
    \/ FramerRLock
    \/ \E id \in DOMAIN eventMap : FramerDispatch(id)
    \/ FramerLock
    \/ FramerRUnlock
    \/ FramerRUnlockMisuse
    \/ FramerNeedRx
    \/ FramerSend
    \/ \E len \in TextLens : SendSMSCall(len)
    \/ SendPortLock
    \/ WfrLock(Sender)
    \/ \E written \in BOOLEAN : SendSetup(written)
    \/ SendMatched
    \/ SendTimeout
    \/ \E written \in BOOLEAN : SendOctets(written)
    \/ \E seen \in BOOLEAN : WaiterLoop(Sender, seen)
    \/ WaiterRecv(Sender)
    \/ WaiterExit(Sender)

\* a session that sends a message
SpecSend == InitSend /\ [][NextSend]_vars

InitClose == InitWith({ScriptOK})

NextClose ==
    \/ DeviceEmit
    \/ Tick
    \/ ReaderRead
    \/ ReaderCheck
    \/ ReaderSend
    \/ FramerRxChar
    \/ FramerTimer
    \/ FramerRLock
    \/ FramerRUnlock
    \/ FramerNeedRx
    \/ FramerSend
    \/ FramerSendClosed
    \/ FramerExit
    \/ \E cmd \in Cmds, expected \in Expecteds : W4rCall(FirstCaller, cmd, expected)
    \/ WfrLock(FirstCaller)
    \/ \E written \in BOOLEAN : WfrPrintln(FirstCaller, written)
    \/ WfrMatched(FirstCaller)
    \/ WfrTimeout(FirstCaller)
    \/ \E seen \in BOOLEAN : WaiterLoop(FirstCaller, seen)
    \/ WaiterRecv(FirstCaller)
    \/ WaiterRecvClosed(FirstCaller)
    \/ WaiterExit(FirstCaller)
    \/ \E k \in Closers, written \in BOOLEAN : CloseCall(k, written)
    \/ \E k \in Closers : CloseCheck(k)
    \/ \E k \in Closers : CloseStore(k)
    \/ \E k \in Closers : CloseRxChar(k)
    \/ \E k \in Closers : CloseRxData(k)

\* a session with one caller of Wait4response in which the port is closed;
\* no listener is registered
SpecClose == InitClose /\ [][NextClose]_vars

InitFair == InitWith({ScriptOK})

\* every goroutine that can take a step takes one, time passes, a timeout
\* that is due fires, and the device sends what it has to send; nothing
\* makes the program add or remove a listener
Fairness ==
    /\ WF_vars(DeviceEmit) /\ WF_vars(Tick)
    /\ WF_vars(ReaderRead) /\ WF_vars(ReaderPush)
    /\ WF_vars(FramerRxChar) /\ WF_vars(FramerTimer) /\ WF_vars(FramerRLock)
    /\ WF_vars(\E id \in DOMAIN eventMap : FramerDispatch(id))
    /\ WF_vars(FramerLock) /\ WF_vars(FramerRUnlock)
    /\ WF_vars(FramerRUnlockMisuse) /\ WF_vars(FramerNeedRx)
    /\ WF_vars(FramerSend)
    /\ \A c \in Callers :
          /\ WF_vars(WfrLock(c))
          /\ WF_vars(\E written \in BOOLEAN : WfrPrintln(c, written))
          /\ WF_vars(WfrMatched(c))
          /\ WF_vars(WfrTimeout(c))
          /\ WF_vars(\E seen \in BOOLEAN : WaiterLoop(c, seen))
          /\ WF_vars(WaiterRecv(c))
          /\ WF_vars(WaiterExit(c))

\* commands on a port whose device answers OK once, under fair scheduling
FairSpec == InitFair /\ [][Next]_vars /\ Fairness

(***************************************************************************)
(* The command lock: WaitForRegexTimeout and its goroutine.                *)
(***************************************************************************)
\* the goroutine of caller c is between RxMu.Lock and RxMu.Unlock
Holds(c) == wpc[c] \in {"loop", "recv", "exit"}

\* the goroutine of caller c is parked on an empty rxData with RxMu locked
Parked(c) == wpc[c] = "recv" /\ rxData = <<>>

\* the command of caller c is written and neither matched nor timed out
InFlight(c) == pc[c] = "select" /\ c1[c] = <<>>

\* C1: no call has returned, by whichever path, and left RxMu locked by a
\* goroutine that only a further frame from the device can wake
C1_ReturnReleasesLock ==
    \A c \in Callers : pc[c] = "done" => ~Parked(c)

\* C2: when a call has returned Timeout its goroutine does not keep RxMu
\* until a further frame arrives
C2_TimeoutFreesLock ==
    \A c \in Callers : result[c].kind = "Timeout" => ~Parked(c)

\* C3: every call that has begun returns, in every run the runtime does not end
C3_EveryCallReturns ==
    \A c \in Callers : (pc[c] # "idle") ~> (pc[c] = "done" \/ aborted)

\* C4: at most one goroutine holds RxMu and consumes rxData, RxMu is locked
\* exactly while one does, and at most one command is between its write and
\* its resolution
C4_OneCommandInFlight ==
    /\ Cardinality({c \in Callers : Holds(c)}) <= 1
    /\ RxMu <=> \E c \in Callers : Holds(c)
    /\ Cardinality({c \in Callers : InFlight(c)}) <= 1

\* a caller waits at RxMu.Lock while the command of another is in flight
C4_Witness ==
    \E c, d \in Callers : InFlight(c) /\ Holds(c) /\ pc[d] = "lock"

(***************************************************************************)
(* The framer: processSerialPort.                                          *)
(***************************************************************************)
\* nothing is on its way from the device to the framer
LineQuiet ==
    devPos > Len(script) /\ portBuf = <<>> /\ rxBuff = <<>> /\ rxChar = <<>>

\* the framer waits in its select with an empty screenBuff
FramerIdle == framerpc = "select" /\ screenBuff = <<>>

\* the framer has stopped at a run-time error
FramerDead == framerpc \in {"fatal", "recovered"}

\* the device has sent all it had to send, and the framer has dealt with all
\* of it or has stopped
AllFramed == devPos > Len(script) /\ ((LineQuiet /\ FramerIdle) \/ FramerDead)

\* C5: the dispatch of a frame ends in no run-time error, the framer holds
\* eventMapLock for reading wherever its range loop releases it, and it has
\* released eventMapLock when the dispatch is over
C5_DispatchSafe ==
    /\ ~FramerDead
    /\ framerpc = "range" => CanRUnlock(eventMapLock)
    /\ framerpc \in {"needrx", "send", "select"} =>
          eventMapLock = [w |-> FALSE, r |-> 0]

(***************************************************************************)
(* The error token: wait4response.                                         *)
(***************************************************************************)
\* in text the error pattern matches, and expected matches no earlier
ErrorFirst(expected, text) ==
    LET e == FindStringSubmatch(CMD_ERROR, text)
        x == FindStringSubmatch(expected, text)
    IN e.found /\ (x.found => e.start <= x.start)

\* C6: a call whose text the error pattern matched no later than the expected
\* pattern has not returned a success
C6_ErrorNeverSuccess ==
    \A c \in Callers :
        result[c].kind = "ok" => ~ErrorFirst(call[c].expected, matchedIn[c])

\* caller c wrote its command before the device sent its only frame, ERROR
AnsweredError(c) == script = ScriptError /\ call[c].wroteAt = 1

\* C7: a call the device answers with ERROR alone returns a DeviceError that
\* holds the text ERROR, and it is not left to its timeout once the framer
\* has dealt with the frame
C7_ErrorAnswered ==
    \A c \in Callers : AnsweredError(c) =>
        /\ pc[c] = "done" =>
              \/ result[c].kind = "Timeout"
              \/ result[c].kind = "DeviceError" /\ Contains(result[c].text, ERROR)
        /\ (pc[c] = "select" /\ AllFramed) => (c1[c] # <<>> \/ rxData # <<>>)

(***************************************************************************)
(* Frames and gaps.                                                        *)
(***************************************************************************)
\* the first n chunks of script s, joined where the gap before a chunk is
\* shorter than the idle duration rxDataTimeout and split where it is longer
RECURSIVE Bursts(_, _)
Bursts(s, n) ==
    IF n = 0 THEN <<>>
    ELSE LET before == Bursts(s, n - 1)
         IN IF n > 1 /\ s[n].gap < rxDataTimeout
            THEN [before EXCEPT ![Len(before)] = @ \o s[n].bytes]
            ELSE Append(before, s[n].bytes)

\* C8: when the framer has dealt with all the device sent, it has published
\* the bytes as one frame if every gap was shorter than the idle duration,
\* and as the frames the longer gaps split them into otherwise
C8_FramesFollowGaps ==
    AllFramed => published = Bursts(script, Len(script))

(***************************************************************************)
(* Calls: the listener of SIM900.Init.                                     *)
(***************************************************************************)
\* the listener of SIM900.Init was registered before the framer finished
\* with a first frame
RouterFirst ==
    published = <<>> /\ \E i \in DOMAIN eventMap : eventMap[i] = "router"

\* no goroutine of a listener has a step left to take
ListenersDone ==
    aborted \/ \A g \in DOMAIN listeners : listeners[g].pc = "done"

\* all the device sent has had its effect on the session
Settled == RouterFirst /\ AllFramed /\ ListenersDone

\* C9: two ring frames and no call-end frame between them have had OnNewCall
\* called once, and a call-end frame no ring came before has left isRinging
\* false and has had nothing called
C9_RingOnce ==
    /\ (script = ScriptRingRing /\ Settled) => Len(newCalls) = 1
    /\ (script = ScriptCEnd /\ Settled) => (~isRinging /\ newCalls = <<>>)

\* C10: a call-end frame that came while isRinging was true has set
\* isRinging to false
C10_CallEndClearsRinging ==
    (script = ScriptRingCEnd /\ Settled) => ~isRinging

(***************************************************************************)
(* Waiting for a message: WaitSMSText and WaitSMSFunc.                     *)
(***************************************************************************)
\* a message the filter of call w takes was fanned out while w was blocked
\* in its select, and every listener started for it has run
Delivered(w) ==
    \E f \in DOMAIN fanouts :
        /\ fanouts[f].pc = "done"
        /\ w \in fanouts[f].waiting
        /\ Accepts(w, fanouts[f].msg)
        /\ \A g \in DOMAIN smsCalls : smsCalls[g].by = f => smsCalls[g].pc = "done"

\* C11: a call without setup functions does not return the timeout error
\* when a message its filter takes has been dispatched while it waited
C11_MessageBeatsTimeout ==
    [][\A w \in Waiters :
          (spc[w] = "select" /\ sres'[w].kind = "Timeout") => ~Delivered(w)]_vars

\* the texts of the messages dispatched so far that came from address a
TextsFrom(a) ==
    {fanouts[f].msg.Text : f \in {x \in DOMAIN fanouts : fanouts[x].msg.Address = a}}

\* C12: what WaitSMSText returns, and what its channel holds, is the text of
\* a message from the address it filters on
C12_OnlyTheAddressAsked ==
    \A w \in Waiters : sarg[w].fn = "WaitSMSText" =>
        /\ \A i \in DOMAIN sresult[w] : sresult[w][i] \in TextsFrom(sarg[w].phoneNumber)
        /\ (sres[w].kind = "ok" /\ sarg[w].inits = <<>>) =>
              sres[w].text \in TextsFrom(sarg[w].phoneNumber)

\* WaitSMSText has returned a text, and its listener has run on the message
\* from the other address too
C12_Witness ==
    \E w \in Waiters :
        /\ sarg[w].fn = "WaitSMSText" /\ sarg[w].inits = <<>>
        /\ sres[w].kind = "ok"
        /\ \E g \in DOMAIN smsCalls :
              /\ smsCalls[g].w = w /\ smsCalls[g].pc = "done"
              /\ smsCalls[g].msg.Address = AddrB

\* C13: the listener of a call is registered while the call is blocked in
\* its select, and is not once the call has returned
C13_SubscriptionKept ==
    \A w \in Waiters :
        /\ spc[w] = "select" => sub[w] \in DOMAIN mapSMSEvents
        /\ spc[w] = "done" => sub[w] \notin DOMAIN mapSMSEvents

(***************************************************************************)
(* SIM900.Call.                                                            *)
(***************************************************************************)
\* Call has its outcome and waits in its deferred DelOutputListener for a
\* lock that nothing will release
CallStuck == callpc = "del" /\ FramerDead /\ ~CanLock(eventMapLock)

\* the frames the framer has handed to the listener of Call
CallFrames == {g \in DOMAIN listeners : listeners[g].fn = "call"}

\* C14: the listener of Call is registered from before the dial command is
\* written until Call returns and is not registered once Call has returned;
\* Call is never left unable to return, neither by the end of the process nor
\* by a lock it waits for in vain; it returns the text its pattern matched in
\* a frame of the device, or the timeout error with no text
C14_CallObserver ==
    /\ callpc \in {"println", "select", "del"} =>
          callSub \in DOMAIN eventMap /\ eventMap[callSub] = "call"
    /\ callpc = "done" => callSub \notin DOMAIN eventMap
    /\ wire # <<>> => callSub # 0
    /\ ~CallStuck
    /\ callpc \notin {"idle", "done"} => ~aborted
    /\ (callpc = "done" /\ callRes.kind = "ok") =>
          \E g \in CallFrames :
              LET m == FindStringSubmatch(callEndPattern, listeners[g].frame)
              IN m.found /\ m.text = callRes.text
    /\ (callpc = "done" /\ callRes.kind = "Timeout") => callRes.text = <<>>

(***************************************************************************)
(* The ids of the registries.                                              *)
(***************************************************************************)
\* the ids a goroutine holds that AddSMSListener has returned or is about to
SMSIdsHeld == {sub[w] : w \in Waiters} \cup {rid[r] : r \in Registrants}

FirstCmds(n) == SubSeq(InitCmds, 1, n)

\* C16: what Init has written is the beginning of its list of commands, in
\* the order of the list; when Init has returned an error at a step, no
\* command after that step has been written and CSCA is what it was; CSCA is
\* set only when Init has returned nil, all seven commands written
C16_InitInOrder ==
    /\ Len(wire) <= Len(InitCmds) /\ wire = FirstCmds(Len(wire))
    /\ initpc \in 1..7 => wire = FirstCmds(initpc - 1)
    /\ (initpc = Returned /\ initErr # "nil") =>
          /\ CSCA = <<>>
          /\ wire = FirstCmds(IF Wrote(initErr) THEN initAt ELSE initAt - 1)
    /\ CSCA # <<>> =>
          initpc = Returned /\ initErr = "nil" /\ wire = InitCmds

\* Init has returned the timeout of its first command, with its listener
\* registered, the one command written and CSCA not set
C16_Witness ==
    /\ initpc = Returned /\ initErr = "Timeout" /\ initAt = 1
    /\ wire = <<"AT">>
    /\ \E id \in DOMAIN eventMap : eventMap[id] = "router"
    /\ CSCA = <<>>

(***************************************************************************)
(* SIM900.SendSMS.                                                         *)
(***************************************************************************)
\* x is in what has been written
Written(x) == \E i \in DOMAIN wire : wire[i] = x

\* the device has sent its chunk k, and the reader and the framer have dealt
\* with all of it, or the framer has stopped
Dealt(k) ==
    /\ devPos > k
    /\ \/ portBuf = <<>> /\ rxBuff = <<>> /\ rxChar = <<>> /\ FramerIdle
       \/ FramerDead

\* C17: with a device that prompts and then reports the message sent with
\* reference 7, SendSMS does not return a device error, returns 7 when it
\* returns without error, is not left to a timeout once the reply it waits
\* for has been dealt with, and the process does not end meanwhile; with any
\* device the payload is written only when the first wait has matched the
\* prompt, its terminator only after the payload, and neither when the first
\* wait has failed
C17_SendTwoPhase ==
    /\ Written(WrotePdu) => sendPrompt = FramePrompt
    /\ Written(WroteCtrlZ) => Written(WrotePdu)
    /\ wire \in {<<>>, <<WroteCmgs>>, <<WroteCmgs, WrotePdu>>,
                  <<WroteCmgs, WrotePdu, WroteCtrlZ>>}
    /\ (sendpc = "done" /\ sendPrompt = <<>>) => ~Written(WrotePdu) /\ ~Written(WroteCtrlZ)
    /\ script = ScriptSent =>
          /\ sendRes.kind # "DeviceError"
          /\ sendRes.kind = "ok" => sendRes.text = <<"7">>
          /\ (sendpc = "prompt" /\ pc[Sender] = "select" /\ Dealt(1)) =>
                (c1[Sender] # <<>> \/ rxData # <<>>)
          /\ (sendpc = "final" /\ pc[Sender] = "select" /\ Dealt(2)) =>
                (c1[Sender] # <<>> \/ rxData # <<>>)
          /\ sendpc \notin {"idle", "done"} => ~aborted

\* C18: SendSMS called with a text of more than 160 characters returns its
\* length error in the step of the call, and that step takes neither PortMu
\* nor RxMu, leaves NeedRx, the place of the caller in WaitForRegexTimeout
\* and its goroutine as they were, and writes nothing; nothing is ever
\* written or locked for such a call, and a text of 160 characters is not
\* refused for its length
C18_TooLongBeforeIO ==
    [][/\ (sendpc = "idle" /\ sendpc' # "idle" /\ sendLen' > 160) =>
             /\ sendpc' = "done" /\ sendRes'.kind = "TooLong"
             /\ UNCHANGED <<wire, PortMu, RxMu, NeedRx, pc, call, c1, wpc>>
       /\ sendLen > 160 =>
             /\ wire = <<>> /\ ~PortMu.w /\ pc[Sender] = "idle"
             /\ sendpc = "done" /\ sendRes.kind = "TooLong"
       /\ (sendLen \in 1..160 /\ sendpc = "done") => sendRes.kind # "TooLong"]_vars

\* SendSMS has returned the length error for a text of 161 characters
C18_Witness ==
    /\ sendLen = 161 /\ sendpc = "done" /\ sendRes.kind = "TooLong"
    /\ wire = <<>> /\ ~PortMu.w /\ RxMu = FALSE

(***************************************************************************)
(* SerialPort.Close.                                                       *)
(***************************************************************************)
\* C19: a call of Wait4response made when the port is closed returns the
\* error "Port is not opened" in the step of the call, which writes nothing,
\* leaves RxMu and NeedRx alone and starts no goroutine; the Println of a
\* Close made when the port is closed writes nothing; and a call whose
\* command was in flight when the port was closed, with no response handed
\* to it yet, does not return a success
C19_ClosedFailsAll ==
    [][/\ \A c \in Callers :
             /\ (pc[c] = "idle" /\ pc'[c] # "idle" /\ Opened # 1) =>
                    /\ pc'[c] = "done" /\ result'[c].kind = "NotOpened"
                    /\ UNCHANGED <<wire, RxMu, NeedRx, wpc>>
             /\ (pc'[c] = "done" /\ c \in pendingAtClose') => result'[c].kind # "ok"
       /\ \A k \in Closers :
             (closepc[k] = "idle" /\ closepc'[k] # "idle" /\ Opened # 1) =>
                wire' = wire]_vars

\* C20: no run-time panic ends the process when the port is closed: no send
\* on a closed channel in a goroutine that does not recover, no second close
\* of rxChar or rxData, no fatal misuse of a lock
C20_CloseNeverAborts ==
    /\ closePanic = "none"
    /\ framerpc # "fatal"
    /\ ~aborted

(***************************************************************************)
(* The framer and the queue rxData.                                        *)
(***************************************************************************)
\* the device sends one frame more than rxData holds, each after the line
\* has gone idle, and none of them is what the command expects
ScriptFlood ==
    [i \in 1..(RxDataCap + 1) |-> Chunk(<<"X">>, IF i = 1 THEN 0 ELSE LongGap)]

InitFlood == InitWith({ScriptFlood, ScriptOK})

\* the device sends nothing before it has been sent a command
DeviceReplies ==
    /\ call[FirstCaller].wroteAt # 0
    /\ DeviceEmit

\* the framer deals with a frame in less than a tick: time passes while it
\* waits in its select
TickInSelect ==
    /\ framerpc = "select"
    /\ Tick

NextFlood ==
    \/ DeviceReplies
    \/ TickInSelect
    \/ ReaderRead
    \/ ReaderPush
    \/ FramerRxChar
    \/ FramerTimer
    \/ FramerRLock
    \/ FramerRUnlock
    \/ FramerNeedRx
    \/ FramerSend
    \/ \E cmd \in Cmds : W4rCall(FirstCaller, cmd, CMD_OK)
    \/ WfrLock(FirstCaller)
    \/ \E written \in BOOLEAN : WfrPrintln(FirstCaller, written)
    \/ WfrMatched(FirstCaller)
    \/ WfrTimeout(FirstCaller)
    \/ \E seen \in BOOLEAN : WaiterLoop(FirstCaller, seen)
    \/ WaiterRecv(FirstCaller)
    \/ WaiterExit(FirstCaller)

\* one command on a port whose device sends many frames; no listener is
\* registered
SpecFlood == InitFlood /\ [][NextFlood]_vars

\* a goroutine of WaitForRegexTimeout that may still receive from rxData
Consuming(c) == wpc[c] \in {"loop", "recv"}

\* the framer is in its send on rxData, the queue is full, and no goroutine
\* is left to receive from it
FramerStalled ==
    /\ framerpc = "send"
    /\ Len(rxData) = RxDataCap
    /\ \A c \in Callers : ~Consuming(c)

\* C21: the framer is never held in the hand-off of a frame to rxData with
\* nobody to receive it: whether a command is pending, has timed out or has
\* been resolved, the publication of a frame completes
C21_FramerNeverStalls == ~FramerStalled

(***************************************************************************)
(* The pending command: what is in rxData when it is installed.            *)
(***************************************************************************)
\* the pending command of caller c is installed: its goroutine holds RxMu
\* and NeedRx is 1
Installed(c) == RxMu /\ NeedRx = 1 /\ Holds(c)

\* C22: the pending command of a call is installed when the call writes its
\* command and for as long as the command is in flight, so that no frame
\* that answers it is published with NeedRx at 0; and there is at most one
\* pending command
C22_InstalledBeforeWrite ==
    /\ \A c \in Callers : pc[c] = "println" => Installed(c)
    /\ \A c \in Callers : InFlight(c) => Installed(c)
    /\ Cardinality({c \in Callers : Holds(c)}) <= 1

\* C27: when a call takes the command lock rxData is empty and the framer
\* holds no frame it is about to queue: no frame published before the
\* pending command was installed is left to resolve it
C27_NoLeftOverFrame ==
    [][\A c \in Callers :
          (pc[c] = "lock" /\ pc'[c] = "println") =>
             (rxData = <<>> /\ framerpc # "send")]_vars

(***************************************************************************)
(* The text the completion pattern is looked for in.                       *)
(***************************************************************************)
\* C23 as stated: the pattern is looked for in each frame by itself, so the
\* text a call found its match in is one frame of the framer, never the text
\* of a frame without a match joined to the frame after it
C23_PerFrameMatch ==
    \A c \in Callers :
        matchedIn[c] # <<>> => \E i \in DOMAIN published : matchedIn[c] = published[i]

\* the pattern a call waits for
PatternOf(c) == WithError(call[c].expected)

\* C23 as amended: the pattern is looked for in lines, the text of all the
\* frames the goroutine of the call has received so far; the first text in
\* which it is found resolves the call and lines is cleared; a frame without
\* a match stays in lines, and the next frame is joined to it
C23_MatchOverLines ==
    [][\A c \in Callers :
          /\ lines[c] # <<>> => ~FindStringSubmatch(PatternOf(c), lines[c]).found
          /\ (wpc[c] = "recv" /\ wpc'[c] # "recv") =>
                LET text == lines[c] \o Head(rxData)
                    m == FindStringSubmatch(PatternOf(c), text)
                IN /\ rxData' = Tail(rxData)
                   /\ IF m.found
                      THEN /\ c1'[c] = <<m.text>> /\ matchedIn'[c] = text
                           /\ lines'[c] = <<>> /\ wpc'[c] = "exit"
                      ELSE /\ lines'[c] = text /\ c1'[c] = c1[c]
                           /\ wpc'[c] = "loop"]_vars

\* a call has returned OK, found in the text of the frames O and K
C23_Witness ==
    \E c \in Callers :
        /\ result[c].kind = "ok" /\ result[c].text = FrameOK
        /\ matchedIn[c] = FrameOK
        /\ published = << <<"O">>, <<"K">> >>

(***************************************************************************)
(* The order in which the listener of SIM900.Init sees the frames.         *)
(***************************************************************************)
\* the goroutines started for the listener of SIM900.Init, one a frame
RouterRuns == {g \in DOMAIN listeners : listeners[g].fn = "router"}

\* the frames handed to the listener of SIM900.Init, in the order of go fn
RouterFrames ==
    LET runs == SelectSeq([g \in DOMAIN listeners |-> listeners[g]],
                          LAMBDA l : l.fn = "router")
    IN [i \in DOMAIN runs |-> runs[i].frame]

FrameMixed ==
    <<"+", "C", "M", "T", ":", "1", "\n", "0", "A", "1", "1", "\n",
      "+", "C", "M", "T", ":", "1", "\n", "Z", "Z", "\n",
      "+", "C", "M", "T", ":", "1", "\n", "0", "B", "\n",
      "+", "C", "M", "T", ":", "1", "\n", "0", "B", "2", "2", "\n">> \o FrameRing

\* one frame: a payload that is no hexadecimal text, and nothing else
FrameBad == <<"+", "C", "M", "T", ":", "1", "\n", "Z", "Z">>

ScriptMixed == <<Chunk(FrameMixed, 0)>>

ScriptBad == <<Chunk(FrameBad, 0)>>

InitDecode == InitWith({ScriptMixed, ScriptBad})

\* a session that issues no command and is sent messages, some of which
\* cannot be decoded
SpecDecode == InitDecode /\ [][NextListening]_vars

\* the messages of the goroutines started for the messages of a frame
FannedOut == [f \in DOMAIN fanouts |-> fanouts[f].msg]

\* the messages of frame that decode, in the order of the frame
GoodOf(frame) ==
    LET good == SelectSeq(Decoded(frame), LAMBDA d : ~d.err)
    IN [i \in DOMAIN good |-> [Address |-> good[i].Address, Text |-> good[i].Text]]

\* C25: once the listener of SIM900.Init is through the messages of a frame
\* with k occurrences of which j do not decode, OnError has been called j
\* times and the k - j messages that decode have been dispatched, in order;
\* the listener then goes on to the call patterns, so that when it is done
\* with a frame that announces a call, OnNewCall has been called for it
C25_DecodeFailureSkipsOne ==
    \A g \in RouterRuns :
        LET frame == listeners[g].frame
            k == Len(FindAllStringSubmatch(newMessagePattern, frame))
            good == GoodOf(frame)
        IN /\ listeners[g].pc = "sms" => smsErrors = 0 /\ fanouts = <<>>
           /\ listeners[g].pc # "sms" =>
                 /\ smsErrors = k - Len(good)
                 /\ FannedOut = good
                 /\ frame = FrameMixed => k = 4 /\ smsErrors = 2 /\ Len(fanouts) = 2
                 /\ frame = FrameBad => k = 1 /\ smsErrors = 1 /\ fanouts = <<>>
           /\ (listeners[g].pc = "done"
                 /\ FindStringSubmatch(newCallPattern, frame).found) =>
                 newCalls = <<frame>> /\ isRinging

\* the listener is done with the frame of four occurrences: two errors
\* reported, the messages from AddrA and AddrB dispatched, the call announced
C25_Witness ==
    \E g \in RouterRuns :
        /\ listeners[g].frame = FrameMixed /\ listeners[g].pc = "done"
        /\ smsErrors = 2
        /\ Len(fanouts) = 2
        /\ fanouts[1].msg.Address = AddrA /\ fanouts[2].msg.Address = AddrB
        /\ newCalls = <<FrameMixed>>

(***************************************************************************)
(* Failure of the stream under readSerialPort.                             *)
(***************************************************************************)
\* the stream fails (the device is unplugged): every Port.Read returns an
\* error from now on
StreamFail ==
    /\ ~aborted
    /\ ~streamErr
    /\ streamErr' = TRUE
    /\ UNCHANGED <<portVars, besidesStream, readErrs>>

\* n, _ := sp.Port.Read(rxBuff) on the failed stream: n is 0 and the error is
\* dropped, the range over rxBuff[:0] has no turn, and the loop tests Opened
\* again
ReaderReadErr ==
    /\ ~aborted
    /\ rxBuff = <<>>
    /\ Opened = 1
    /\ streamErr
    /\ readErrs < MaxReadErrs
    /\ readErrs' = readErrs + 1
    /\ UNCHANGED <<portVars, besidesStream, streamErr>>

NextStream == NextClose \/ StreamFail \/ ReaderReadErr

\* a session with one caller of Wait4response in which the stream may fail and
\* the port may be closed; no listener is registered
SpecStream == InitClose /\ [][NextStream]_vars

\* C26: when a read of the stream fails, readSerialPort terminates and the
\* consumers of rxChar observe its closure: the loop does not keep running on
\* a stream that returns errors. A Port.Read that returned an error is the
\* last Port.Read of readSerialPort.
C26_ReadErrorEndsReader == readErrs <= 1

(***************************************************************************)
(* The port lock PortMu: SendSMS and Call against the commands that go     *)
(* through Wait4response.                                                  *)
(***************************************************************************)
\* the command of ClearSMS, AT+CMGD=1,4
ClearSMSCmd == <<"A", "T", "+", "C", "M", "G", "D">>

\* ClearSMS() is called: s.Wait4response("AT+CMGD=1,4", CMD_OK, 5s), that is
\* s.PortMu.RLock() and, in WaitForRegexTimeout, the test of Opened
ClearSMSCall(c) ==
    /\ ~aborted
    /\ pc[c] = "idle"
    /\ CanRLock(PortMu)
    /\ call' = [call EXCEPT ![c] = [cmd |-> ClearSMSCmd, expected |-> CMD_OK,
                                    wroteAt |-> 0]]
    /\ IF Opened = 1
       THEN /\ PortMu' = [PortMu EXCEPT !.r = @ + 1]
            /\ pc' = [pc EXCEPT ![c] = "lock"]
            /\ UNCHANGED result
       ELSE /\ result' = [result EXCEPT ![c] = [kind |-> "NotOpened", text |-> <<>>]]
            /\ pc' = [pc EXCEPT ![c] = "done"]
            /\ UNCHANGED PortMu
    /\ UNCHANGED <<devVars, readerVars, rxChar, rxData, Opened, NeedRx, RxMu,
                   registryVars, eventMapLock, framerVars, listeners,
                   routerVars, c1, timeExpired, waiterVars, aborted,
                   extVars>>

\* the caller other than the one that may call SendSMS
Clearer == CHOOSE c \in Callers : c # Sender

\* the first caller is inside SendSMS, between s.PortMu.Lock() and its return
SendHolds == sendpc \in {"prompt", "octets", "final"}

\* Call is between s.PortMu.Lock() and its deferred s.PortMu.Unlock()
CallHolds == callpc \in {"add", "println", "select", "del"}

\* caller c is inside Wait4response, between s.PortMu.RLock() and its return
Reading(c) ==
    /\ pc[c] \in {"lock", "println", "select"}
    /\ ~(c = Sender /\ SendHolds)

\* the device answers SendSMS as asked; a device that reports ERROR or the
\* end of a call does so when it likes
DeviceSpeaks ==
    /\ script \in {ScriptError, ScriptCallEnd} \/ Asked
    /\ DeviceEmit

\* SendSMS is called by the first caller, which has called nothing yet
SendSMSFirst == pc[Sender] = "idle" /\ SendSMSCall(MaxSMSLen)

\* Wait4response is called by the first caller, which has not called SendSMS
W4rFirst(cmd) == sendpc = "idle" /\ W4rCall(Sender, cmd, CMD_OK)

\* the steps of Wait4response, of a caller that is inside Wait4response
W4rPrintln(c, written) == Reading(c) /\ WfrPrintln(c, written)

W4rMatched(c) == Reading(c) /\ WfrMatched(c)

W4rTimeout(c) == Reading(c) /\ WfrTimeout(c)

\* the first caller calls either SendSMS or Wait4response, once; the other
\* caller calls ClearSMS; Call is called once
NextExclusive ==
    \/ DeviceSpeaks
    \/ Tick
    \/ ReaderRead
    \/ ReaderPush
    \/ FramerRxChar
    \/ FramerTimer
    \/ FramerRLock
    \/ \E id \in DOMAIN eventMap : FramerDispatch(id)
    \/ FramerLock
    \/ FramerRUnlock
    \/ FramerRUnlockMisuse
    \/ FramerNeedRx
    \/ FramerSend
    \/ SendSMSFirst
    \/ SendPortLock
    \/ \E written \in BOOLEAN : SendSetup(written)
    \/ SendMatched
    \/ SendTimeout
    \/ \E written \in BOOLEAN : SendOctets(written)
    \/ \E cmd \in Cmds : W4rFirst(cmd)
    \/ ClearSMSCall(Clearer)
    \/ \E c \in Callers : WfrLock(c)
    \/ \E c \in Callers, written \in BOOLEAN : W4rPrintln(c, written)
    \/ \E c \in Callers : W4rMatched(c)
    \/ \E c \in Callers : W4rTimeout(c)
    \/ \E c \in Callers, seen \in BOOLEAN : WaiterLoop(c, seen)
    \/ \E c \in Callers : WaiterRecv(c)
    \/ \E c \in Callers : WaiterExit(c)
    \/ CallCall
    \/ CallAdd
    \/ \E written \in BOOLEAN : CallPrintln(written)
    \/ CallMatched
    \/ CallTimeout
    \/ CallDel
    \/ \E g \in DOMAIN listeners : CallListenerStep(g)

InitExclusive == InitWith({ScriptSent, ScriptError, ScriptCallEnd})

\* a session with SendSMS or Wait4response, ClearSMS and Call side by side
SpecExclusive == InitExclusive /\ [][NextExclusive]_vars

\* what SendSMS writes
SendWrites == {WroteCmgs, WrotePdu, WroteCtrlZ}

\* PortMu is held exclusively by exactly one of SendSMS and Call, by nobody
\* in read mode meanwhile, and what SendSMS wrote lies together in wire
PortMuExclusive ==
    /\ PortMu.w <=> (SendHolds \/ CallHolds)
    /\ ~(SendHolds /\ CallHolds)
    /\ PortMu.w => PortMu.r = 0 /\ \A c \in Callers : ~Reading(c)
    /\ PortMu.r = Cardinality({c \in Callers : Reading(c)})
    /\ \A i, j, k \in DOMAIN wire :
          (i < j /\ j < k /\ wire[i] \in SendWrites /\ wire[k] \in SendWrites)
             => wire[j] \in SendWrites

\* caller c of Wait4response writes its command, or fails to, in this step
W4rWrites(c) ==
    /\ Reading(c)
    /\ pc[c] = "println"
    /\ pc'[c] # "println"

\* a step taken while SendSMS or Call holds PortMu writes only for the holder
WritesOfHolder ==
    /\ PortMu.w => \A c \in Callers : ~W4rWrites(c)
    /\ (SendHolds /\ wire' # wire) => wire'[Len(wire')] \in SendWrites
    /\ (CallHolds /\ wire' # wire) => wire'[Len(wire')] = "ATD"

\* a caller of Wait4response writes its command while no other caller's
\* pending command holds RxMu
OneAtATime ==
    \A c \in Callers : W4rWrites(c) => \A d \in Callers \ {c} : ~Holds(d)

\* C28: while SendSMS or Call holds PortMu exclusively no other command of
\* the facade writes to the stream, so the prompt request, the payload and
\* the terminator of SendSMS are not interleaved with the bytes of another
\* command; and the concurrent callers of Wait4response, which hold PortMu
\* in read mode together, are serialized one at a time by RxMu.
C28_ExclusiveWrites ==
    [][PortMuExclusive' /\ WritesOfHolder /\ OneAtATime]_vars

(***************************************************************************)
(* The bytes that go through processSerialPort.                            *)
(***************************************************************************)
RECURSIVE Joined(_)
\* the frames of fs one after the other
Joined(fs) == IF fs = <<>> THEN <<>> ELSE Head(fs) \o Joined(Tail(fs))

\* the bytes the device has sent so far
Emitted == Joined([i \in 1..(devPos - 1) |-> script[i].bytes])

\* the bytes on their way to the framer: in rxChar, in rxBuff of
\* readSerialPort, in the port
OnTheWay == rxChar \o rxBuff \o portBuf

\* the bytes processSerialPort has taken from rxChar so far
Consumed == SubSeq(Emitted, 1, Len(Emitted) - Len(OnTheWay))

\* screenBuff, which is as good as cleaned once the frame is logged and only
\* its send to rxData is left
Accumulated == IF framerpc = "send" THEN <<>> ELSE screenBuff

\* the framer is between the timer and the end of a publication
Publishing == framerpc \in {"rlock", "range", "lock", "needrx", "send"}

\* C29: the frames published so far, one after the other, followed by the
\* accumulation buffer are the bytes consumed from rxChar so far, none lost,
\* doubled or out of place; no frame published, handed to a listener or
\* queued for a command is empty, and the framer does not go into a
\* publication with an empty buffer.
C29_BytesConserved ==
    /\ Joined(published) \o Accumulated = Consumed
    /\ Consumed \o OnTheWay = Emitted
    /\ \A i \in DOMAIN published : published[i] # <<>>
    /\ \A g \in DOMAIN listeners : listeners[g].frame # <<>>
    /\ \A i \in DOMAIN rxData : rxData[i] # <<>>
    /\ Publishing => screenBuff # <<>>

\* two frames have been published and a command has received them
C29_Witness ==
    /\ script = ScriptLongGap
    /\ published = << <<"O">>, <<"K">> >>
    /\ framerpc = "select"
    /\ screenBuff = <<>>
    /\ OnTheWay = <<>>
    /\ \E c \in Callers : lines[c] = <<"O", "K">> \/ matchedIn[c] = <<"O", "K">>

(***************************************************************************)
(* The setup functions of WaitSMSText and WaitSMSFunc.                     *)
(***************************************************************************)
\* the call of w has returned, but for what it deferred
SMSReturned(w) == spc[w] \in {"del", "done"}

\* C30: a call of WaitSMSText or WaitSMSFunc that is given setup functions
\* calls the first of them and no other, and returns what it returned, an
\* empty text and no error when that is nil, without ever waiting in its
\* select for a message or for the timeout.
C30_FirstSetupOnly ==
    \A w \in Waiters :
        /\ sarg[w].inits = <<>> => setupRuns[w] = <<>>
        /\ sarg[w].inits # <<>> =>
              /\ spc[w] # "select"
              /\ ~SMSReturned(w) => (setupRuns[w] = <<>> /\ sres[w] = NoResult)
              /\ SMSReturned(w) =>
                    /\ setupRuns[w] = <<1>>
                    /\ sres[w].text = <<>>
                    /\ sres[w].kind = IF sarg[w].inits[1] = "nil"
                                      THEN "ok" ELSE "SetupError"

\* WaitSMSText, given a setup function that returns nil and a second one
\* that would fail, has returned no text and no error, with a message from
\* the address it filters on waiting in its channel
C30_Witness ==
    \E w \in Waiters :
        /\ sarg[w].fn = "WaitSMSText"
        /\ sarg[w].inits = <<"nil", "err">>
        /\ spc[w] = "done"
        /\ sres[w] = [kind |-> "ok", text |-> <<>>]
        /\ setupRuns[w] = <<1>>
        /\ sresult[w] # <<>>

====
